---------------------------- MODULE Spec2Model ----------------------------
(***************************************************************************)
(* A model of the gas-metering pass of wasm-instrument                     *)
(* (src/src/gas_metering/mod.rs, src/src/gas_metering/backend.rs).         *)
(*                                                                         *)
(* Numbers.  The pass computes in u32 and u64.  A number is a sequence of  *)
(* eight limbs in base 256, least significant limb first, so that the real *)
(* widths are kept: u64::MAX is eight limbs of 255, u32::MAX is four limbs *)
(* of 255 followed by four zero limbs.                                     *)
(*                                                                         *)
(* Instructions.  A parity_wasm Instruction is a record [op, arg]; arg is  *)
(* always a sequence of naturals: <<>> when the instruction has no         *)
(* immediate that matters, <<l>> for br / br_if / call, <<default, t1, ..>>*)
(* for br_table (the order of [default].chain(table)), and the eight limbs *)
(* of the constant for i64.const.                                          *)
(*                                                                         *)
(* Runs.  A cost sum passes u64::MAX only in a body of more than 2^32      *)
(* instructions, the costs being u32.  Such a body is written with runs:   *)
(* an item of a body is an instruction, or a run [op, arg, times] that     *)
(* stands for times consecutive copies of an instruction of the `_` arm    *)
(* of determine_metered_blocks, times being a u64 above zero.  A position  *)
(* of a body with runs is the index of an item; the positions the pass     *)
(* records are those of control instructions and the ones that follow      *)
(* them, and their order and equality are the same in both countings.      *)
(***************************************************************************)
EXTENDS Integers, Sequences, FiniteSets, TLC

(***************************************************************************)
(* Bounds of the model.                                                    *)
(***************************************************************************)
MaxLen == 6
MaxDepth == 2
MaxJumps == 1
MaxImports == 2
MaxFuncs == 2
MaxCalls == 3

(***************************************************************************)
(* 64-bit and 32-bit unsigned arithmetic on limbs.                         *)
(***************************************************************************)
Base == 256
Limbs == 8

Zero == <<0, 0, 0, 0, 0, 0, 0, 0>>
U32Max == <<255, 255, 255, 255, 0, 0, 0, 0>>
U64Max == <<255, 255, 255, 255, 255, 255, 255, 255>>

\* The limbs of a natural below 2^31.
Num(n) ==
    <<n % Base, (n \div Base) % Base, (n \div 65536) % Base, (n \div 16777216) % Base,
      0, 0, 0, 0>>

RECURSIVE AddLimbs(_, _, _, _)
\* The limbs of a + b from limb i on, given the carry into limb i, followed by
\* the carry out of the last limb.
AddLimbs(a, b, i, carry) ==
    IF i > Limbs THEN <<carry>>
    ELSE <<(a[i] + b[i] + carry) % Base>>
            \o AddLimbs(a, b, i + 1, (a[i] + b[i] + carry) \div Base)

RECURSIVE SubLimbs(_, _, _, _)
\* The limbs of a - b from limb i on, given the borrow into limb i, followed by
\* the borrow out of the last limb.
SubLimbs(a, b, i, borrow) ==
    IF i > Limbs THEN <<borrow>>
    ELSE <<(a[i] - b[i] - borrow + Base) % Base>>
            \o SubLimbs(a, b, i + 1, IF a[i] - b[i] - borrow < 0 THEN 1 ELSE 0)

RECURSIVE MulColumn(_, _, _, _)
\* Column k (from 1) of the schoolbook product of a and b, from term i on.
MulColumn(a, b, k, i) ==
    IF i > k THEN 0 ELSE a[i] * b[k + 1 - i] + MulColumn(a, b, k, i + 1)

RECURSIVE MulLimbs(_, _, _, _)
\* The low limbs of a * b from limb k on, given the carry into limb k.
MulLimbs(a, b, k, carry) ==
    IF k > Limbs THEN <<>>
    ELSE <<(MulColumn(a, b, k, 1) + carry) % Base>>
            \o MulLimbs(a, b, k + 1, (MulColumn(a, b, k, 1) + carry) \div Base)

Low(limbs) == SubSeq(limbs, 1, Limbs)

\* Option<T>: <<v>> is Some(v), <<>> is None.
Some(v) == <<v>>
None == <<>>
IsSome(o) == o # <<>>

\* a < b, a >= b as unsigned 64-bit values.
LtU(a, b) == SubLimbs(a, b, 1, 0)[Limbs + 1] = 1
GeU(a, b) == ~LtU(a, b)

\* a + b, a - b, a * b modulo 2^64.
WrappingAdd(a, b) == Low(AddLimbs(a, b, 1, 0))
WrappingSub(a, b) == Low(SubLimbs(a, b, 1, 0))
WrappingMul(a, b) == MulLimbs(a, b, 1, 0)

NoneIfCarry(limbs) == IF limbs[Limbs + 1] = 1 THEN None ELSE Some(Low(limbs))
NoneIfAboveU32(v) == IF LtU(U32Max, v) THEN None ELSE Some(v)

\* u64::checked_add
CheckedAdd64(a, b) == NoneIfCarry(AddLimbs(a, b, 1, 0))

\* u32::checked_add: the sum of two u32 values is exact in 64 bits.
CheckedAdd32(a, b) == NoneIfAboveU32(WrappingAdd(a, b))

\* u32::checked_mul: the product of two u32 values is exact in 64 bits.
CheckedMul32(a, b) == NoneIfAboveU32(WrappingMul(a, b))

\* Bit j of a number.
Bit(b, j) == (b[(j \div 8) + 1] \div (2 ^ (j % 8))) % 2

RECURSIVE TimesFrom(_, _, _, _)
\* acc * 2^(j+1) + a * (the low j+1 bits of b), by doubling and adding with
\* every addition checked: None when a sum passes u64::MAX.
TimesFrom(a, b, j, acc) ==
    IF ~IsSome(acc) \/ j < 0 THEN acc
    ELSE LET doubled == CheckedAdd64(acc[1], acc[1])
         IN  IF ~IsSome(doubled) THEN None
             ELSE TimesFrom(a, b, j - 1,
                    IF Bit(b, j) = 1 THEN CheckedAdd64(doubled[1], a) ELSE doubled)

\* val added times times to cost, every addition a u64::checked_add: None as
\* soon as one of the sums passes u64::MAX, which the last one then does too.
CheckedAddTimes(cost, val, times) ==
    LET product == TimesFrom(val, times, 63, Some(Zero))
    IN  IF IsSome(product) THEN CheckedAdd64(cost, product[1]) ELSE None

(***************************************************************************)
(* Instructions.                                                           *)
(***************************************************************************)
Ins(op, arg) == [op |-> op, arg |-> arg]

Block == Ins("Block", <<>>)
Loop == Ins("Loop", <<>>)
If == Ins("If", <<>>)
Else == Ins("Else", <<>>)
End == Ins("End", <<>>)
Return == Ins("Return", <<>>)
Unreachable == Ins("Unreachable", <<>>)
Drop == Ins("Drop", <<>>)
Nop == Ins("Nop", <<>>)
I64GeU == Ins("I64GeU", <<>>)
I64Sub == Ins("I64Sub", <<>>)
I64Mul == Ins("I64Mul", <<>>)
I64ExtendUI32 == Ins("I64ExtendUI32", <<>>)
GrowMemory == Ins("GrowMemory", <<0>>)
Br(l) == Ins("Br", <<l>>)
BrIf(l) == Ins("BrIf", <<l>>)
BrTable(labels) == Ins("BrTable", labels)
Call(k) == Ins("Call", <<k>>)
GetGlobal(g) == Ins("GetGlobal", <<g>>)
SetGlobal(g) == Ins("SetGlobal", <<g>>)
GetLocal(l) == Ins("GetLocal", <<l>>)
I64Const(v) == Ins("I64Const", v)

Ops ==
    {"Block", "Loop", "If", "Else", "End", "Return", "Unreachable", "Drop", "I64GeU",
     "I64Sub", "I64Mul", "I64ExtendUI32", "GrowMemory", "Br", "BrIf", "BrTable", "Call",
     "GetGlobal", "SetGlobal", "GetLocal", "I64Const", "Nop"}

\* times consecutive copies of an instruction of the `_` arm; the loops of
\* the pass that rewrite calls and memory.grow rewrite every copy.
Run(instruction, times) ==
    [op |-> instruction.op, arg |-> instruction.arg, times |-> times]

IsRun(instruction) == "times" \in DOMAIN instruction


(***************************************************************************)
(* Rules (trait Rules).  A rule set is a record:                           *)
(*   cost     : op -> Option<u32>, the answer of instruction_cost;         *)
(*   grow     : Option<u32>, None for MemoryGrowCost::Free and Some(k)     *)
(*              for MemoryGrowCost::Linear(k), k nonzero;                  *)
(*   perLocal : u32, the answer of call_per_local_cost.                    *)
(***************************************************************************)
instruction_cost(rules, instruction) == rules.cost[instruction.op]

memory_grow_cost(rules) == rules.grow

call_per_local_cost(rules) == rules.perLocal

\* MemoryGrowCost::enabled
enabled(grow) == IsSome(grow)

\* ConstantCostRules::new together with its impl of Rules: every instruction
\* costs instruction_cost, and a memory_grow_cost of zero means Free.
ConstantCostRules(instr, grow, perLocal) ==
    [cost |-> [o \in Ops |-> Some(instr)],
     grow |-> IF grow = Zero THEN None ELSE Some(grow),
     perLocal |-> perLocal]

\* ConstantCostRules::default
DefaultRules == ConstantCostRules(Num(1), Zero, Num(1))

(***************************************************************************)
(* The metered-block analysis (struct Counter and determine_metered_blocks)*)
(* A Counter is [stack, finalized_blocks]; a ControlBlock is               *)
(* [lowest_forward_br_target, active_metered_block, is_loop]; a            *)
(* MeteredBlock is [start_pos, cost].  Positions and control-stack indices *)
(* count from 0 as in the source, so stack index i is stack[i + 1].        *)
(* A Result<Counter, ()> is [ok, c].                                       *)
(***************************************************************************)
MeteredBlock(start_pos, cost) == [start_pos |-> start_pos, cost |-> cost]

Ok(c) == [ok |-> TRUE, c |-> c]
Err(c) == [ok |-> FALSE, c |-> c]

\* The ? operator: go on with the counter of an Ok, return an Err at once.
AndThen(r, F(_)) == IF r.ok THEN F(r.c) ELSE r

Min(a, b) == IF a <= b THEN a ELSE b

\* Counter::new
NewCounter == [stack |-> <<>>, finalized_blocks |-> <<>>]

\* Counter::begin_control_block
begin_control_block(c, cursor, is_loop) ==
    [c EXCEPT !.stack = Append(@,
        [lowest_forward_br_target |-> Len(c.stack),
         active_metered_block |-> MeteredBlock(cursor, Zero),
         is_loop |-> is_loop])]

\* Counter::active_metered_block, the stack being non-empty.
active_metered_block(c) == c.stack[Len(c.stack)].active_metered_block

\* The end of Counter::finalize_metered_block: the closing block is merged into
\* the active block of the control block below (sum is its checked new cost).
MergeIntoPrev(c, sum) ==
    IF IsSome(sum)
    THEN Ok([c EXCEPT !.stack[Len(c.stack) - 1].active_metered_block.cost = sum[1]])
    ELSE Err(c)

\* finalize_metered_block that drops a block it should merge into the active
\* block of the control block below.
FinalizeWithoutMerging(c, cursor) ==
    IF c.stack = <<>> THEN Err(c)
    ELSE
        LET top == Len(c.stack)
            closing_metered_block == c.stack[top].active_metered_block
            c1 == [c EXCEPT !.stack[top].active_metered_block =
                                MeteredBlock(cursor + 1, Zero)]
        IN  IF /\ top - 1 > 0
               /\ closing_metered_block.start_pos =
                      c.stack[top - 1].active_metered_block.start_pos
            THEN Ok(c1)
            ELSE IF closing_metered_block.cost # Zero
            THEN Ok([c1 EXCEPT !.finalized_blocks = Append(@, closing_metered_block)])
            ELSE Ok(c1)

\* Counter::finalize_metered_block
finalize_metered_block(c, cursor) ==
    IF c.stack = <<>> THEN Err(c)
    ELSE
        LET top == Len(c.stack)
            closing_metered_block == c.stack[top].active_metered_block
            c1 == [c EXCEPT !.stack[top].active_metered_block =
                                MeteredBlock(cursor + 1, Zero)]
            last_index == top - 1
        IN  IF /\ last_index > 0
               /\ closing_metered_block.start_pos =
                      c.stack[top - 1].active_metered_block.start_pos
            THEN MergeIntoPrev(c1,
                    CheckedAdd64(c.stack[top - 1].active_metered_block.cost,
                                 closing_metered_block.cost))
            ELSE IF closing_metered_block.cost # Zero
            THEN Ok([c1 EXCEPT !.finalized_blocks = Append(@, closing_metered_block)])
            ELSE Ok(c1)

\* PopControlBlock that also finalizes the block of the enclosing frame when a
\* branch targets the closed block itself.
PopControlBlockBranchToSelf(c, cursor) ==
    LET closing_control_block == c.stack[Len(c.stack)]
        closing_control_index == Len(c.stack) - 1
        may_br_out ==
            closing_control_block.lowest_forward_br_target <= closing_control_index
    IN  IF closing_control_index = 0
        THEN Ok([c EXCEPT !.stack = <<>>])
        ELSE IF may_br_out
        THEN finalize_metered_block(
                [c EXCEPT !.stack = [i \in 1..closing_control_index |->
                    IF i = closing_control_index
                    THEN [c.stack[i] EXCEPT !.lowest_forward_br_target =
                            Min(@, closing_control_block.lowest_forward_br_target)]
                    ELSE c.stack[i]]],
                cursor)
        ELSE Ok([c EXCEPT !.stack = [i \in 1..closing_control_index |->
                    IF i = closing_control_index
                    THEN [c.stack[i] EXCEPT !.lowest_forward_br_target =
                            Min(@, closing_control_block.lowest_forward_br_target)]
                    ELSE c.stack[i]]])

\* Counter::finalize_control_block after its first finalize_metered_block.
PopControlBlock(c, cursor) ==
    LET closing_control_block == c.stack[Len(c.stack)]
        closing_control_index == Len(c.stack) - 1
        may_br_out ==
            closing_control_block.lowest_forward_br_target < closing_control_index
    IN  IF closing_control_index = 0
        THEN Ok([c EXCEPT !.stack = <<>>])
        ELSE IF may_br_out
        THEN finalize_metered_block(
                [c EXCEPT !.stack = [i \in 1..closing_control_index |->
                    IF i = closing_control_index
                    THEN [c.stack[i] EXCEPT !.lowest_forward_br_target =
                            Min(@, closing_control_block.lowest_forward_br_target)]
                    ELSE c.stack[i]]],
                cursor)
        ELSE Ok([c EXCEPT !.stack = [i \in 1..closing_control_index |->
                    IF i = closing_control_index
                    THEN [c.stack[i] EXCEPT !.lowest_forward_br_target =
                            Min(@, closing_control_block.lowest_forward_br_target)]
                    ELSE c.stack[i]]])

\* Counter::finalize_control_block
finalize_control_block(c, cursor) ==
    AndThen(finalize_metered_block(c, cursor), LAMBDA c1 : PopControlBlock(c1, cursor))

RECURSIVE BranchTargets(_, _, _)
\* The loop of Counter::branch over indices[i..].
BranchTargets(c, indices, i) ==
    IF i > Len(indices) THEN Ok(c)
    ELSE IF indices[i] >= Len(c.stack) THEN Err(c)
    ELSE IF c.stack[indices[i] + 1].is_loop THEN BranchTargets(c, indices, i + 1)
    ELSE BranchTargets(
            [c EXCEPT !.stack[Len(c.stack)].lowest_forward_br_target = Min(@, indices[i])],
            indices, i + 1)

\* Counter::branch
branch(c, cursor, indices) ==
    AndThen(finalize_metered_block(c, cursor), LAMBDA c1 : BranchTargets(c1, indices, 1))

\* The end of Counter::increment: sum is the checked new cost.
SetActiveCost(c, sum) ==
    IF IsSome(sum)
    THEN Ok([c EXCEPT !.stack[Len(c.stack)].active_metered_block.cost = sum[1]])
    ELSE Err(c)

\* Counter::increment with wrapping_add in the place of checked_add.
increment_wrapping(c, val) ==
    IF c.stack = <<>> THEN Err(c)
    ELSE SetActiveCost(c, Some(WrappingAdd(active_metered_block(c).cost, val)))

\* Counter::increment
increment(c, val) ==
    IF c.stack = <<>> THEN Err(c)
    ELSE SetActiveCost(c, CheckedAdd64(active_metered_block(c).cost, val))

\* The turns of the loop of determine_metered_blocks over a run: times calls
\* of counter.increment(instruction_cost)?.
IncrementTimes(c, val, times) ==
    IF c.stack = <<>> THEN Err(c)
    ELSE SetActiveCost(c, CheckedAddTimes(active_metered_block(c).cost, val, times))

\* Counter::active_control_block_index, the stack being non-empty.
active_control_block_index(c) == Len(c.stack) - 1

\* AfterIncrement with the metered block of a loop begun at the loop
\* instruction itself and not at the first instruction of the loop body.
AfterIncrementLoopAtCursor(c, instruction, cursor) ==
    CASE instruction.op = "Block" ->
            Ok(begin_control_block(c, active_metered_block(c).start_pos, FALSE))
      [] instruction.op = "If" -> Ok(begin_control_block(c, cursor + 1, FALSE))
      [] instruction.op = "Loop" -> Ok(begin_control_block(c, cursor, TRUE))
      [] instruction.op \in {"Br", "BrIf", "BrTable"} ->
            IF \E i \in 1..Len(instruction.arg) :
                    instruction.arg[i] > active_control_block_index(c)
            THEN Err(c)
            ELSE branch(c, cursor,
                    [i \in 1..Len(instruction.arg) |->
                        active_control_block_index(c) - instruction.arg[i]])
      [] instruction.op = "Return" -> branch(c, cursor, <<0>>)
      [] OTHER -> Ok(c)

\* AfterIncrement with the metered block of a block begun at the instruction
\* after it and not where the block of its parent starts.
AfterIncrementBlockAtNext(c, instruction, cursor) ==
    CASE instruction.op = "Block" ->
            Ok(begin_control_block(c, cursor + 1, FALSE))
      [] instruction.op = "If" -> Ok(begin_control_block(c, cursor + 1, FALSE))
      [] instruction.op = "Loop" -> Ok(begin_control_block(c, cursor + 1, TRUE))
      [] instruction.op \in {"Br", "BrIf", "BrTable"} ->
            IF \E i \in 1..Len(instruction.arg) :
                    instruction.arg[i] > active_control_block_index(c)
            THEN Err(c)
            ELSE branch(c, cursor,
                    [i \in 1..Len(instruction.arg) |->
                        active_control_block_index(c) - instruction.arg[i]])
      [] instruction.op = "Return" -> branch(c, cursor, <<0>>)
      [] OTHER -> Ok(c)

\* The arms of the match in determine_metered_blocks that follow
\* counter.increment(instruction_cost)?.
AfterIncrement(c, instruction, cursor) ==
    CASE instruction.op = "Block" ->
            Ok(begin_control_block(c, active_metered_block(c).start_pos, FALSE))
      [] instruction.op = "If" -> Ok(begin_control_block(c, cursor + 1, FALSE))
      [] instruction.op = "Loop" -> Ok(begin_control_block(c, cursor + 1, TRUE))
      [] instruction.op \in {"Br", "BrIf", "BrTable"} ->
            IF \E i \in 1..Len(instruction.arg) :
                    instruction.arg[i] > active_control_block_index(c)
            THEN Err(c)
            ELSE branch(c, cursor,
                    [i \in 1..Len(instruction.arg) |->
                        active_control_block_index(c) - instruction.arg[i]])
      [] instruction.op = "Return" -> branch(c, cursor, <<0>>)
      [] OTHER -> Ok(c)

\* MeterInstruction with the cost of else added to the block it closes.
MeterInstructionChargingElse(c, instruction, cost, cursor) ==
    CASE instruction.op = "End" -> finalize_control_block(c, cursor)
      [] instruction.op = "Else" ->
            AndThen(increment(c, cost), LAMBDA c1 : finalize_metered_block(c1, cursor))
      [] OTHER -> AndThen(increment(c, cost),
                          LAMBDA c1 : AfterIncrement(c1, instruction, cursor))

\* The body of the loop of determine_metered_blocks for one instruction whose
\* cost the rules give.
MeterInstruction(c, instruction, cost, cursor) ==
    CASE instruction.op = "End" -> finalize_control_block(c, cursor)
      [] instruction.op = "Else" -> finalize_metered_block(c, cursor)
      [] IsRun(instruction) -> IncrementTimes(c, cost, instruction.times)
      [] OTHER -> AndThen(increment(c, cost),
                          LAMBDA c1 : AfterIncrement(c1, instruction, cursor))

RECURSIVE MeterFrom(_, _, _, _)
\* The loop of determine_metered_blocks from cursor on.
MeterFrom(c, instructions, rules, cursor) ==
    IF cursor >= Len(instructions) THEN Ok(c)
    ELSE IF ~IsSome(instruction_cost(rules, instructions[cursor + 1])) THEN Err(c)
    ELSE AndThen(MeterInstruction(c, instructions[cursor + 1],
                                  instruction_cost(rules, instructions[cursor + 1])[1],
                                  cursor),
                 LAMBDA c1 : MeterFrom(c1, instructions, rules, cursor + 1))

RECURSIVE InsertSorted(_, _)
InsertSorted(sorted, block) ==
    IF sorted = <<>> THEN <<block>>
    ELSE IF block.start_pos < Head(sorted).start_pos THEN <<block>> \o sorted
    ELSE <<Head(sorted)>> \o InsertSorted(Tail(sorted), block)

RECURSIVE SortByStartPos(_)
\* sort_unstable_by_key(|block| block.start_pos)
SortByStartPos(blocks) ==
    IF blocks = <<>> THEN <<>>
    ELSE InsertSorted(SortByStartPos(SubSeq(blocks, 1, Len(blocks) - 1)),
                      blocks[Len(blocks)])

\* SortedBlocks without the sort: the blocks in the order they were finalized.
UnsortedBlocks(r) ==
    IF r.ok THEN [ok |-> TRUE, blocks |-> r.c.finalized_blocks]
    ELSE [ok |-> FALSE, blocks |-> <<>>]

\* The Result<Vec<MeteredBlock>, ()> of a Result<Counter, ()>.
SortedBlocks(r) ==
    IF r.ok THEN [ok |-> TRUE, blocks |-> SortByStartPos(r.c.finalized_blocks)]
    ELSE [ok |-> FALSE, blocks |-> <<>>]

\* MeterWithLocals that takes a locals_init_cost that overflowed to be zero.
MeterWithLocalsUnchecked(instructions, rules, locals_init_cost) ==
    AndThen(increment(begin_control_block(NewCounter, 0, FALSE),
                      IF IsSome(locals_init_cost) THEN locals_init_cost[1] ELSE Zero),
            LAMBDA c : MeterFrom(c, instructions, rules, 0))

\* determine_metered_blocks after locals_init_cost is computed (an Option).
MeterWithLocals(instructions, rules, locals_init_cost) ==
    IF ~IsSome(locals_init_cost) THEN Err(NewCounter)
    ELSE AndThen(increment(begin_control_block(NewCounter, 0, FALSE), locals_init_cost[1]),
                 LAMBDA c : MeterFrom(c, instructions, rules, 0))

\* determine_metered_blocks: [ok, blocks]
determine_metered_blocks(instructions, rules, locals_count) ==
    SortedBlocks(MeterWithLocals(instructions, rules,
                    CheckedMul32(call_per_local_cost(rules), locals_count)))

RECURSIVE InsertFrom(_, _, _, _, _, _, _)
\* The loop of insert_metering_calls: original_pos counts from 0, next is the
\* index (from 1) of the block that block_iter.peek() gives, new_instrs is the
\* vector built so far.
InsertFrom(original_instrs, gas_function_cost, blocks, gas_func, original_pos, next, new_instrs) ==
    IF original_pos >= Len(original_instrs)
    THEN [ok |-> next > Len(blocks), code |-> new_instrs]
    ELSE IF next <= Len(blocks) /\ blocks[next].start_pos = original_pos
    THEN IF ~IsSome(CheckedAdd64(blocks[next].cost, gas_function_cost))
         THEN [ok |-> FALSE, code |-> new_instrs]
         ELSE InsertFrom(original_instrs, gas_function_cost, blocks, gas_func,
                    original_pos + 1, next + 1,
                    new_instrs \o
                        <<I64Const(CheckedAdd64(blocks[next].cost, gas_function_cost)[1]),
                          Call(gas_func), original_instrs[original_pos + 1]>>)
    ELSE InsertFrom(original_instrs, gas_function_cost, blocks, gas_func,
                    original_pos + 1, next,
                    Append(new_instrs, original_instrs[original_pos + 1]))

\* insert_metering_calls: [ok, code]
insert_metering_calls(instructions, gas_function_cost, blocks, gas_func) ==
    InsertFrom(instructions, gas_function_cost, blocks, gas_func, 0, 1, <<>>)

\* inject_counter after determine_metered_blocks.
InsertIfOk(instructions, gas_function_cost, blocks, gas_func) ==
    IF blocks.ok
    THEN insert_metering_calls(instructions, gas_function_cost, blocks.blocks, gas_func)
    ELSE [ok |-> FALSE, code |-> instructions]

\* inject_counter: [ok, code], code being the new instruction list when ok
inject_counter(instructions, gas_function_cost, locals_count, rules, gas_func) ==
    InsertIfOk(instructions, gas_function_cost,
               determine_metered_blocks(instructions, rules, locals_count), gas_func)

(***************************************************************************)
(* Modules.  A parity_wasm Module is a record:                             *)
(*   imports   : sequence of [kind, module, field], kind "Function" or     *)
(*               "Global";                                                 *)
(*   globals   : sequence of [value_type, mutable, init];                  *)
(*   functions : sequence of [locals, code], the defined functions with    *)
(*               their bodies; locals is the sequence of Local::count()    *)
(*               of the body's local groups, code its instructions;        *)
(*   exports   : sequence of [field, kind, index];                         *)
(*   elements  : sequence of element segments, each its member list;       *)
(*   start     : Option<u32>;                                              *)
(*   names     : the function names of the name section, a sequence of     *)
(*               <<index, name>>.                                          *)
(* Function and global indices are naturals.  The type section is left     *)
(* out: the pass only pushes signatures to it.                             *)
(* A backend is [kind |-> "host_function", module, name] or                *)
(* [kind |-> "mutable_global", global_name].                               *)
(***************************************************************************)
CountKind(imports, kind) ==
    Cardinality({i \in 1..Len(imports) : imports[i].kind = kind})

\* module.import_count(ImportCountType::Function)
import_count(module) == CountKind(module.imports, "Function")

\* module.functions_space()
functions_space(module) == import_count(module) + Len(module.functions)

\* module.globals_space(), counting the defined globals only.
DefinedGlobalsOnly(module) == Len(module.globals)

\* module.globals_space()
globals_space(module) == CountKind(module.imports, "Global") + Len(module.globals)

\* func_instructions with the operands of the comparison in the other order.
func_instructions_swapped(gas_global_idx) ==
    <<GetLocal(0), GetGlobal(gas_global_idx), I64GeU, If,
      GetGlobal(gas_global_idx), GetLocal(0), I64Sub, SetGlobal(gas_global_idx),
      Return, End,
      I64Const(U64Max), SetGlobal(gas_global_idx), Unreachable, End>>

\* func_instructions with zero stored on the fail path.
func_instructions_zero_sentinel(gas_global_idx) ==
    <<GetGlobal(gas_global_idx), GetLocal(0), I64GeU, If,
      GetGlobal(gas_global_idx), GetLocal(0), I64Sub, SetGlobal(gas_global_idx),
      Return, End,
      I64Const(Zero), SetGlobal(gas_global_idx), Unreachable, End>>

\* The body of the local gas function built by mutable_global::Injector.
func_instructions(gas_global_idx) ==
    <<GetGlobal(gas_global_idx), GetLocal(0), I64GeU, If,
      GetGlobal(gas_global_idx), GetLocal(0), I64Sub, SetGlobal(gas_global_idx),
      Return, End,
      I64Const(U64Max), SetGlobal(gas_global_idx), Unreachable, End>>

\* The instructions used to fail when out of gas.
fail_instructions(gas_global_idx) ==
    <<I64Const(U64Max), SetGlobal(gas_global_idx), Unreachable>>

\* Option::unwrap_or
unwrap_or(o, default) == IF IsSome(o) THEN o[1] ELSE default

RECURSIVE FoldCost(_, _, _)
\* instructions.iter().fold(0, |cost, instruction|
\*     cost + (rules.instruction_cost(instruction).unwrap_or(0) as u64)), from i on
FoldCost(rules, instructions, i) ==
    IF i > Len(instructions) THEN Zero
    ELSE WrappingAdd(unwrap_or(instruction_cost(rules, instructions[i]), Zero),
                     FoldCost(rules, instructions, i + 1))

\* gas_fn_cost -= fail_cost: the difference and whether the subtraction
\* went below zero.
SubtractFailCost(difference) ==
    [cost |-> Low(difference), underflow |-> difference[Limbs + 1] = 1]

\* SelfCost without the subtraction of the fail path's cost.
SelfCostOfWholeBody(rules, gas_global_idx) ==
    [cost |-> FoldCost(rules, func_instructions(gas_global_idx), 1), underflow |-> FALSE]

\* The cost of the gas function computed by mutable_global::Injector::gas_meter.
SelfCost(rules, gas_global_idx) ==
    SubtractFailCost(SubLimbs(FoldCost(rules, func_instructions(gas_global_idx), 1),
                              FoldCost(rules, fail_instructions(gas_global_idx), 1), 1, 0))

\* Backend::gas_meter, the GasMeter of a backend.
gas_meter(backend, module, rules) ==
    IF backend.kind = "host_function"
    THEN [kind |-> "External", module |-> backend.module, function |-> backend.name]
    ELSE [kind |-> "Internal", global |-> backend.global_name,
          func_instructions |-> func_instructions(globals_space(module)),
          cost |-> SelfCost(rules, globals_space(module)).cost,
          underflow |-> SelfCost(rules, globals_space(module)).underflow]

\* The first, second and third component of the tuple
\* (gas_func_idx, total_func, gas_fn_cost) of inject.
gas_func_idx(module, gm) ==
    IF gm.kind = "External" THEN import_count(module) ELSE functions_space(module)

\* TotalFunc taken as the size of the input's function space.
TotalFuncOfInput(module, gm) == functions_space(module)

TotalFunc(module, gm) == functions_space(module) + 1

GasFnCost(module, gm) == IF gm.kind = "External" THEN Zero ELSE gm.cost

\* mbuilder.build() after the match on gas_meter: the import of the gas
\* function, or the gas global, its export and the local gas function.
Prepared(module, gm) ==
    IF gm.kind = "External"
    THEN [module EXCEPT !.imports = Append(@,
            [kind |-> "Function", module |-> gm.module, field |-> gm.function])]
    ELSE [module EXCEPT
            !.globals = Append(@, [value_type |-> "I64", mutable |-> TRUE, init |-> Zero]),
            !.exports = Append(@, [field |-> gm.global, kind |-> "Global",
                                   index |-> globals_space(module)]),
            !.functions = Append(@, [locals |-> <<>>, code |-> gm.func_instructions])]

\* The loop over the instructions of a body that increments calling addresses,
\* with > in the place of >=.
ShiftCallsAbove(code, first_shifted) ==
    [i \in 1..Len(code) |->
        IF code[i].op = "Call" /\ code[i].arg[1] > first_shifted
        THEN [code[i] EXCEPT !.arg = <<@[1] + 1>>]
        ELSE code[i]]

\* The loop over the instructions of a body that increments calling addresses:
\* every call of a run of calls is incremented.
ShiftCalls(code, first_shifted) ==
    [i \in 1..Len(code) |->
        IF code[i].op = "Call" /\ code[i].arg[1] >= first_shifted
        THEN [code[i] EXCEPT !.arg = <<@[1] + 1>>]
        ELSE code[i]]

\* *index += 1 if *index >= gas_func_idx
ShiftIndex(index, first_shifted) == IF index >= first_shifted THEN index + 1 ELSE index

RECURSIVE LocalsCount(_, _, _)
\* locals.iter().try_fold(0u32, |count, val_type| count.checked_add(val_type.count()))
\* from group i on, count being the Option folded so far.
LocalsCount(locals, i, count) ==
    IF ~IsSome(count) THEN None
    ELSE IF i > Len(locals) THEN count
    ELSE LocalsCount(locals, i + 1, CheckedAdd32(count[1], locals[i]))

\* inject_grow_counter: the new instructions; the count it returns is the
\* number of memory.grow instructions of the old ones.  Every memory.grow of
\* a run is replaced.
inject_grow_counter(instructions, grow_counter_func) ==
    [i \in 1..Len(instructions) |->
        IF instructions[i].op # "GrowMemory" THEN instructions[i]
        ELSE IF IsRun(instructions[i])
        THEN Run(Call(grow_counter_func), instructions[i].times)
        ELSE Call(grow_counter_func)]

RECURSIVE GrowCountFrom(_, _)
\* counter += 1 for every memory.grow from item i on: a usize, kept as a u64
\* since a run holds up to 2^64 - 1 instructions.
GrowCountFrom(instructions, i) ==
    IF i > Len(instructions) THEN Zero
    ELSE IF instructions[i].op # "GrowMemory" THEN GrowCountFrom(instructions, i + 1)
    ELSE WrappingAdd(IF IsRun(instructions[i]) THEN instructions[i].times ELSE Num(1),
                     GrowCountFrom(instructions, i + 1))

\* The count inject_grow_counter returns, a u64.
GrowCount(instructions) == GrowCountFrom(instructions, 1)

\* The end of the loop body for one function body: the grow counter is
\* injected when the rules enable it.  counted is the Result of inject_counter.
AfterCounter(func_body, counted, rules, total_func) ==
    IF ~counted.ok THEN [ok |-> FALSE, body |-> func_body, grown |-> FALSE]
    ELSE IF enabled(memory_grow_cost(rules))
    THEN [ok |-> TRUE,
          body |-> [func_body EXCEPT !.code = inject_grow_counter(counted.code, total_func)],
          grown |-> GrowCount(counted.code) # Zero]
    ELSE [ok |-> TRUE, body |-> [func_body EXCEPT !.code = counted.code], grown |-> FALSE]

\* The loop body for one function body whose calls are already shifted.
CountBody(func_body, locals_count, rules, gas_func, total_func, gas_fn_cost) ==
    IF ~IsSome(locals_count) THEN [ok |-> FALSE, body |-> func_body, grown |-> FALSE]
    ELSE AfterCounter(func_body,
            inject_counter(func_body.code, gas_fn_cost, locals_count[1], rules, gas_func),
            rules, total_func)

\* The loop body of the code section for one function body.
InjectBody(func_body, gm, rules, gas_func, total_func, gas_fn_cost) ==
    CountBody(
        IF gm.kind = "External"
        THEN [func_body EXCEPT !.code = ShiftCalls(@, gas_func)]
        ELSE func_body,
        LocalsCount(func_body.locals, 1, Some(Zero)),
        rules, gas_func, total_func, gas_fn_cost)

RECURSIVE InjectBodies(_, _, _, _, _, _, _, _, _)
RECURSIVE InjectNext(_, _, _, _, _, _, _, _, _, _)
\* The loop over injection_targets from body i to body last: the bodies built
\* so far, whether a grow counter is needed, and ok FALSE after break 'outer.
InjectBodies(bodies, i, last, need_grow_counter, gm, rules, gas_func, total_func, gas_fn_cost) ==
    IF i > last
    THEN [ok |-> TRUE, bodies |-> bodies, need_grow_counter |-> need_grow_counter]
    ELSE InjectNext(bodies, i, last, need_grow_counter, gm, rules, gas_func, total_func,
                    gas_fn_cost,
                    InjectBody(bodies[i], gm, rules, gas_func, total_func, gas_fn_cost))

\* One round of the loop, injected being the outcome for body i.
InjectNext(bodies, i, last, need_grow_counter, gm, rules, gas_func, total_func, gas_fn_cost, injected) ==
    IF ~injected.ok
    THEN [ok |-> FALSE, bodies |-> bodies, need_grow_counter |-> need_grow_counter]
    ELSE InjectBodies([bodies EXCEPT ![i] = injected.body], i + 1, last,
                      need_grow_counter \/ injected.grown, gm, rules, gas_func,
                      total_func, gas_fn_cost)

\* LastTarget with the local gas function among the injection targets.
LastTargetWithGasFunction(prepared, gm) == Len(prepared.functions)

\* The injection targets are all bodies, but not the local gas function, which
\* is the last one.
LastTarget(prepared, gm) ==
    IF gm.kind = "External" THEN Len(prepared.functions) ELSE Len(prepared.functions) - 1

\* The arms of the loop over the sections for the export, element, start and
\* name sections.
ShiftSections(prepared, gm, gas_func) ==
    IF gm.kind = "External"
    THEN [prepared EXCEPT
            !.exports = [e \in 1..Len(@) |->
                IF @[e].kind = "Function"
                THEN [@[e] EXCEPT !.index = ShiftIndex(@, gas_func)]
                ELSE @[e]],
            !.elements = [g \in 1..Len(@) |->
                [m \in 1..Len(@[g]) |-> ShiftIndex(@[g][m], gas_func)]],
            !.start = IF IsSome(@) THEN Some(ShiftIndex(@[1], gas_func)) ELSE None,
            !.names = [n \in 1..Len(@) |-> <<ShiftIndex(@[n][1], gas_func), @[n][2]>>]]
    ELSE prepared

\* A grow counter that grows the memory before it charges.
grow_counter_instructions_charging_late(cost, gas_func) ==
    <<GetLocal(0), GrowMemory, GetLocal(0), I64ExtendUI32, I64Const(cost), I64Mul,
      Call(gas_func), End>>

\* The body of the function that add_grow_counter pushes.
grow_counter_instructions(cost, gas_func) ==
    <<GetLocal(0), GetLocal(0), I64ExtendUI32, I64Const(cost), I64Mul, Call(gas_func),
      GrowMemory, End>>

\* add_grow_counter
add_grow_counter(module, rules, gas_func) ==
    IF ~enabled(memory_grow_cost(rules)) THEN module
    ELSE [module EXCEPT !.functions = Append(@,
            [locals |-> <<>>,
             code |-> grow_counter_instructions(memory_grow_cost(rules)[1], gas_func)])]

\* The end of inject with the original module returned whatever the result.
ResultKeepingChanges(module, resulting_module, code, rules, gas_func) ==
    IF ~code.ok THEN [ok |-> FALSE, module |-> resulting_module]
    ELSE IF code.need_grow_counter
    THEN [ok |-> TRUE,
          module |-> add_grow_counter([resulting_module EXCEPT !.functions = code.bodies],
                                      rules, gas_func)]
    ELSE [ok |-> TRUE, module |-> [resulting_module EXCEPT !.functions = code.bodies]]

\* The end of inject: result.map_err(|_| module)?, then the grow counter.
\* code is the outcome of the loop over the bodies.
InjectResult(module, resulting_module, code, rules, gas_func) ==
    IF ~code.ok THEN [ok |-> FALSE, module |-> module]
    ELSE IF code.need_grow_counter
    THEN [ok |-> TRUE,
          module |-> add_grow_counter([resulting_module EXCEPT !.functions = code.bodies],
                                      rules, gas_func)]
    ELSE [ok |-> TRUE, module |-> [resulting_module EXCEPT !.functions = code.bodies]]

\* inject after gas_meter: the loop over the sections.
InjectWith(module, prepared, gm, rules) ==
    InjectResult(module,
        ShiftSections(prepared, gm, gas_func_idx(module, gm)),
        InjectBodies(prepared.functions, 1, LastTarget(prepared, gm), FALSE, gm, rules,
                     gas_func_idx(module, gm), TotalFunc(module, gm), GasFnCost(module, gm)),
        rules, gas_func_idx(module, gm))

\* inject: [ok, module], the module of Ok or of Err.
inject(module, backend, rules) ==
    InjectWith(module, Prepared(module, gas_meter(backend, module, rules)),
               gas_meter(backend, module, rules), rules)

(***************************************************************************)
(* The stack limiter (src/src/stack_limiter).                              *)
(*                                                                         *)
(* A module given to the stack limiter is a record                         *)
(*   types     : the type section, each type [params, results], both       *)
(*               sequences of value types                                  *)
(*   imports   : the import section, each entry [kind, type_ref, mutable]  *)
(*   sections  : the names of the sections present, in file order          *)
(*   functions : function and code section, each [type_ref, locals, code], *)
(*               locals the counts of the local groups                     *)
(*   globals   : the entries of the global section                         *)
(*   exports, elements, start : as for the gas metering                    *)
(* An i32.const holds the 32 bits of its constant as a number below 2^32.  *)
(***************************************************************************)
I32Const(v) == Ins("I32Const", v)
I32Add == Ins("I32Add", <<>>)
I32Sub == Ins("I32Sub", <<>>)
I32GtU == Ins("I32GtU", <<>>)

\* The low 32 bits of a number.
Wrap32(v) == <<v[1], v[2], v[3], v[4], 0, 0, 0, 0>>

(***************************************************************************)
(* max_height.rs: the analyzer of the height of the value stack.  A Stack  *)
(* is [values, control_stack]: values is the number of values (the types   *)
(* and weights of the values do not bear on the height), a Frame is        *)
(* [is_polymorphic, unreachable_depth, start_height] (result_type and      *)
(* branch_type are written by the source and never read).  The analysis    *)
(* carries max_height next to the Stack.                                   *)
(***************************************************************************)
ACTIVATION_FRAME_HEIGHT == 2

Frame(start_height) ==
    [is_polymorphic |-> FALSE, unreachable_depth |-> 0, start_height |-> start_height]

\* The one element of a set of one element: {F(v) : v \in {e}} computes e once
\* for all its uses in F.
Only(S) == CHOOSE x \in S : TRUE

\* Stack::new, with max_height = 0
NewStack == [values |-> 0, control_stack |-> <<>>, max_height |-> 0]

TopFrame(s) == s.control_stack[Len(s.control_stack)]

\* Stack::push_frame
push_frame(s, frame) == [s EXCEPT !.control_stack = Append(@, frame)]

\* Stack::pop_frame
pop_frame(s) ==
    IF s.control_stack = <<>> THEN Err("stack must be non-empty")
    ELSE Ok([s EXCEPT !.control_stack = SubSeq(@, 1, Len(@) - 1)])

\* Stack::mark_unreachable
mark_unreachable(s) ==
    IF s.control_stack = <<>> THEN Err("stack must be non-empty")
    ELSE Ok([s EXCEPT !.control_stack[Len(s.control_stack)] =
                [@ EXCEPT !.is_polymorphic = TRUE, !.unreachable_depth = 1]])

\* Stack::push_unreachable
push_unreachable(s) ==
    IF s.control_stack = <<>> THEN Err("stack must be non-empty")
    ELSE Ok([s EXCEPT !.control_stack[Len(s.control_stack)].unreachable_depth = @ + 1])

\* Stack::pop_unreachable; the depth it returns is that of the new top frame.
pop_unreachable(s) ==
    IF s.control_stack = <<>> THEN Err("stack must be non-empty")
    ELSE Ok([s EXCEPT !.control_stack[Len(s.control_stack)].unreachable_depth = @ - 1])

\* Stack::push_value; the heights of the model stay far below u32::MAX.
push_value(s) == Ok([s EXCEPT !.values = @ + 1])

\* Stack::pop_value that takes every frame to be polymorphic.
pop_value_in_any_frame(s) ==
    IF s.control_stack = <<>> THEN Err("control stack is empty")
    ELSE IF s.values = TopFrame(s).start_height THEN Ok(s)
    ELSE IF s.values > 0 THEN Ok([s EXCEPT !.values = @ - 1])
    ELSE Err("trying to pop more values than pushed")

\* Stack::pop_value
pop_value(s) ==
    IF s.control_stack = <<>> THEN Err("control stack is empty")
    ELSE IF s.values = TopFrame(s).start_height
        THEN IF TopFrame(s).is_polymorphic THEN Ok(s)
             ELSE Err("trying to pop more values than pushed")
    ELSE IF s.values > 0 THEN Ok([s EXCEPT !.values = @ - 1])
    ELSE Err("trying to pop more values than pushed")

RECURSIVE PopValues(_, _)
\* n times stack.pop_value()?
PopValues(r, n) ==
    IF ~r.ok \/ n = 0 THEN r ELSE PopValues(pop_value(r.c), n - 1)

\* pops values popped and then pushes values pushed, each with ?
PopPush(s, pops, pushes) ==
    LET popped == PopValues(Ok(s), pops)
    IN  IF ~popped.ok \/ pushes = 0 THEN popped ELSE push_value(popped.c)

HasSection(module, name) == \E i \in 1..Len(module.sections) : module.sections[i] = name

\* The type index of every function of the function index space, imported
\* functions first, as collect_func_types pushes them to ctx.func_types.
FuncTypeRefs(module) ==
    SelectSeq([i \in 1..Len(module.imports) |->
                  IF module.imports[i].kind = "Function" THEN module.imports[i].type_ref
                  ELSE -1], LAMBDA t : t >= 0)
        \o [i \in 1..Len(module.functions) |-> module.functions[i].type_ref]

\* resolve_func_type(func_idx, module): the signature of a function of the
\* function index space.
resolve_func_type(func_idx, module) ==
    IF func_idx >= Len(FuncTypeRefs(module))
        THEN Err("Function at the specified index is not defined")
    ELSE IF FuncTypeRefs(module)[func_idx + 1] >= Len(module.types)
        THEN Err("The signature as specified by a function isn't defined")
    ELSE Ok(module.types[FuncTypeRefs(module)[func_idx + 1] + 1])

\* The match of compute on an instruction met in a frame that is not
\* polymorphic.  fn is [has_result, locals_len, globals_len] of the function
\* analysed: whether it returns a value, locals.len() and globals.len().
StackEffect(s, opcode, fn, module) ==
    LET popped == pop_value(s)
        ty == resolve_func_type(opcode.arg[1], module)
    IN  CASE opcode.op \in {"Block", "Loop"} -> Ok(push_frame(s, Frame(s.values)))
          [] opcode.op = "If" ->
                IF popped.ok THEN Ok(push_frame(popped.c, Frame(popped.c.values)))
                ELSE popped
          [] opcode.op \in {"Else", "End"} -> Ok(s)
          [] opcode.op \in {"Unreachable", "Br", "BrTable"} -> mark_unreachable(s)
          [] opcode.op = "BrIf" -> popped
          [] opcode.op = "Return" ->
                IF ~fn.has_result THEN mark_unreachable(s)
                ELSE IF popped.ok THEN mark_unreachable(popped.c)
                ELSE popped
          [] opcode.op = "Call" ->
                IF ~ty.ok THEN ty
                ELSE PopPush(s, Len(ty.c.params), IF ty.c.results = <<>> THEN 0 ELSE 1)
          [] opcode.op \in {"Drop", "SetGlobal"} -> popped
          [] opcode.op = "GetLocal" ->
                IF GeU(Num(opcode.arg[1]), fn.locals_len)
                    THEN Err("Reference to a global is out of bounds")
                ELSE push_value(s)
          [] opcode.op = "GetGlobal" ->
                IF opcode.arg[1] >= fn.globals_len
                    THEN Err("Reference to a global is out of bounds")
                ELSE push_value(s)
          [] opcode.op \in {"GrowMemory", "I64ExtendUI32"} -> PopPush(s, 1, 1)
          [] opcode.op \in {"I32Const", "I64Const"} -> push_value(s)
          [] opcode.op \in {"I32GtU", "I64GeU", "I32Add", "I32Sub", "I64Sub", "I64Mul"} ->
                PopPush(s, 2, 1)

\* if !stack.frame(0)?.is_polymorphic { ... max_height = cur_height }
UpdateMax(s) ==
    IF ~TopFrame(s).is_polymorphic /\ s.values > s.max_height
        THEN [s EXCEPT !.max_height = s.values]
    ELSE s

\* One turn of the loop of compute in a polymorphic frame: block, loop and
\* if deepen the unreachable code, end leaves it and pops the frame when
\* the depth is back to 0, anything else (else included) is skipped.
SkipUnreachable(s, opcode) ==
    LET left == pop_unreachable(s)
    IN  CASE opcode.op \in {"Block", "Loop", "If"} -> push_unreachable(s)
          [] opcode.op = "End" ->
                IF TopFrame(left.c).unreachable_depth = 0 THEN pop_frame(left.c) ELSE left
          [] OTHER -> Ok(s)

\* One turn of the loop of compute.
AnalyzeTurn(s, opcode, fn, module) ==
    LET r == StackEffect(s, opcode, fn, module)
    IN  IF s.control_stack = <<>> THEN Err("control stack is empty")
        ELSE IF TopFrame(s).is_polymorphic THEN SkipUnreachable(s, opcode)
        ELSE IF ~r.ok THEN r
        ELSE IF opcode.op = "End" THEN pop_frame(UpdateMax(r.c))
        ELSE Ok(UpdateMax(r.c))

RECURSIVE AnalyzeFrom(_, _, _, _, _)
\* for opcode in instructions.elements() { ... } from instruction i on
AnalyzeFrom(r, instructions, i, fn, module) ==
    IF ~r.ok \/ i > Len(instructions) THEN r
    ELSE Only({AnalyzeFrom(turned, instructions, i + 1, fn, module) :
                turned \in {AnalyzeTurn(r.c, instructions[i], fn, module)}})

RECURSIVE SumLocals(_, _)
\* The number of locals declared by the groups from group i on.
SumLocals(locals, i) ==
    IF i > Len(locals) THEN Zero ELSE WrappingAdd(locals[i], SumLocals(locals, i + 1))

\* locals.len(): the parameters and the declared locals
LocalsLen(signature, locals) == WrappingAdd(Num(Len(signature.params)), SumLocals(locals, 1))

FnOf(signature, locals, module) ==
    [has_result |-> signature.results # <<>>,
     locals_len |-> LocalsLen(signature, locals),
     globals_len |-> IF HasSection(module, "Global") THEN Len(module.globals) ELSE 0]

\* The stack the analysis starts from: the implicit frame of the function.
StartStack == push_frame(NewStack, Frame(0))

\* compute_raw(signature, body, module): the analysis of a body under a
\* signature, the height it returns being ACTIVATION_FRAME_HEIGHT + max_height.
compute_raw(signature, locals, instructions, module) ==
    Only({IF ~r.ok THEN r ELSE Ok(Num(ACTIVATION_FRAME_HEIGHT + r.c.max_height)) :
            r \in {Only({AnalyzeFrom(Ok(StartStack), instructions, 1, fn, module) :
                            fn \in {FnOf(signature, locals, module)}})}})

\* max_height::compute(func_idx, module), the height of the pair it returns.
compute(func_idx, module) ==
    IF ~HasSection(module, "Function") THEN Err("No function section")
    ELSE IF ~HasSection(module, "Code") THEN Err("No code section")
    ELSE IF ~HasSection(module, "Type") THEN Err("No type section")
    ELSE IF func_idx >= Len(module.functions)
        THEN Err("Function is not found in func section")
    ELSE IF module.functions[func_idx + 1].type_ref >= Len(module.types)
        THEN Err("Function is not found in func section")
    ELSE compute_raw(module.types[module.functions[func_idx + 1].type_ref + 1],
                     module.functions[func_idx + 1].locals,
                     module.functions[func_idx + 1].code, module)

(***************************************************************************)
(* stack_limiter/mod.rs.  A Context is [func_imports, func_types,          *)
(* stack_height_global_idx, func_stack_costs, stack_limit]; costs, limit   *)
(* and the constants of the inserted instructions are u32 numbers.         *)
(***************************************************************************)
\* instrument_call! with a postamble that adds the cost once more.
instrument_call_adding_twice(callee_idx, callee_stack_cost, stack_height_global_idx, stack_limit) ==
    <<GetGlobal(stack_height_global_idx), I32Const(callee_stack_cost), I32Add,
      SetGlobal(stack_height_global_idx),
      GetGlobal(stack_height_global_idx), I32Const(stack_limit), I32GtU, If, Unreachable, End,
      Call(callee_idx),
      GetGlobal(stack_height_global_idx), I32Const(callee_stack_cost), I32Add,
      SetGlobal(stack_height_global_idx)>>

\* instrument_call!
instrument_call(callee_idx, callee_stack_cost, stack_height_global_idx, stack_limit) ==
    <<GetGlobal(stack_height_global_idx), I32Const(callee_stack_cost), I32Add,
      SetGlobal(stack_height_global_idx),
      GetGlobal(stack_height_global_idx), I32Const(stack_limit), I32GtU, If, Unreachable, End,
      Call(callee_idx),
      GetGlobal(stack_height_global_idx), I32Const(callee_stack_cost), I32Sub,
      SetGlobal(stack_height_global_idx)>>

\* Context::stack_cost
stack_cost(ctx, func_idx) ==
    IF func_idx < Len(ctx.func_stack_costs) THEN Some(ctx.func_stack_costs[func_idx + 1])
    ELSE None

\* collect_func_types
collect_func_types(ctx, module) ==
    IF \E i \in 1..Len(FuncTypeRefs(module)) : FuncTypeRefs(module)[i] >= Len(module.types)
        THEN Err("The signature as specified by a function isn't defined")
    ELSE Ok([ctx EXCEPT !.func_types = FuncTypeRefs(module)])

\* compute_stack_cost; the max_height::compute it calls is the height of
\* compute.
compute_stack_cost(def_func_idx, module) ==
    LET locals_count == LocalsCount(module.functions[def_func_idx + 1].locals, 1, Some(Zero))
        max_stack_height == compute(def_func_idx, module)
    IN  IF ~HasSection(module, "Code")
            THEN Err("Due to validation code section should exists")
        ELSE IF def_func_idx >= Len(module.functions) THEN Err("Function body is out of bounds")
        ELSE IF ~IsSome(locals_count) THEN Err("Overflow in local count")
        ELSE IF ~max_stack_height.ok THEN max_stack_height
        ELSE IF ~IsSome(CheckedAdd32(locals_count[1], max_stack_height.c))
            THEN Err("Overflow in adding locals_count and max_stack_height")
        ELSE Ok(CheckedAdd32(locals_count[1], max_stack_height.c)[1])

\* compute_stack_costs
compute_stack_costs(ctx, module) ==
    Only({IF \E k \in 1..Len(costs) : ~costs[k].ok
              THEN costs[CHOOSE k \in 1..Len(costs) :
                            ~costs[k].ok /\ \A j \in 1..(k - 1) : costs[j].ok]
          ELSE Ok([ctx EXCEPT !.func_stack_costs =
                    [i \in 1..ctx.func_imports |-> Zero]
                        \o [k \in 1..Len(costs) |-> costs[k].c]]) :
            costs \in {[k \in 1..Len(module.functions) |->
                            compute_stack_cost(k - 1, module)]}})

\* prepare_context
prepare_context(module, stack_limit) ==
    LET collected ==
            collect_func_types([func_imports |-> import_count(module), func_types |-> <<>>,
                                stack_height_global_idx |-> 0, func_stack_costs |-> <<>>,
                                stack_limit |-> stack_limit], module)
    IN  IF ~collected.ok THEN collected ELSE compute_stack_costs(collected.c, module)

\* builder::global().value_type().i32().mutable().init_expr(I32Const(0))
global_entry == [value_type |-> "I32", mutable |-> TRUE, init |-> Zero]

\* The position of the last section that precedes the global section, 0 when
\* there is none (rposition over the sections).
prec_index(sections) ==
    IF \E i \in 1..Len(sections) : sections[i] \in {"Type", "Import", "Function", "Table", "Memory"}
        THEN CHOOSE i \in 1..Len(sections) :
                /\ sections[i] \in {"Type", "Import", "Function", "Table", "Memory"}
                /\ \A j \in (i + 1)..Len(sections) :
                        sections[j] \notin {"Type", "Import", "Function", "Table", "Memory"}
    ELSE 0

\* generate_stack_height_global: Ok of [module, idx], the module with the new
\* global and the index written to ctx.stack_height_global_idx.
generate_stack_height_global(module) ==
    IF HasSection(module, "Global")
        THEN Ok([module |-> [module EXCEPT !.globals = Append(@, global_entry)],
                 idx |-> Len(module.globals) + 1 - 1])
    ELSE IF prec_index(module.sections) = 0
        THEN Err("generate stack height global hasn't found any preceding sections")
    ELSE Ok([module |-> [module EXCEPT
                            !.globals = <<global_entry>>,
                            !.sections = SubSeq(@, 1, prec_index(module.sections))
                                            \o <<"Global">>
                                            \o SubSeq(@, prec_index(module.sections) + 1, Len(@))],
             idx |-> 0])

\* instrument_function instrumenting every call whose callee has a stack cost,
\* a cost of 0 included.
IsCallWithCost(ctx, instruction) ==
    /\ instruction.op = "Call"
    /\ IsSome(stack_cost(ctx, instruction.arg[1]))

\* Whether instrument_function instruments an instruction: a call whose
\* callee has a stack cost above 0.
IsInstrumented(ctx, instruction) ==
    /\ instruction.op = "Call"
    /\ IsSome(stack_cost(ctx, instruction.arg[1]))
    /\ stack_cost(ctx, instruction.arg[1])[1] # Zero

RECURSIVE InstrumentFrom(_, _, _)
\* The loop of instrument_function over original_instrs from original_pos on.
InstrumentFrom(ctx, original_instrs, original_pos) ==
    IF original_pos >= Len(original_instrs) THEN <<>>
    ELSE (IF IsInstrumented(ctx, original_instrs[original_pos + 1])
             THEN instrument_call(original_instrs[original_pos + 1].arg[1],
                                  stack_cost(ctx, original_instrs[original_pos + 1].arg[1])[1],
                                  ctx.stack_height_global_idx, ctx.stack_limit)
          ELSE <<original_instrs[original_pos + 1]>>)
            \o InstrumentFrom(ctx, original_instrs, original_pos + 1)

\* instrument_function: the new instructions of a body
instrument_function(ctx, func) == InstrumentFrom(ctx, func, 0)

\* instrument_functions
instrument_functions(ctx, module) ==
    IF ~HasSection(module, "Code") THEN module
    ELSE [module EXCEPT !.functions =
            [k \in 1..Len(@) |-> [@[k] EXCEPT !.code = instrument_function(ctx, @)]]]

(***************************************************************************)
(* stack_limiter/thunk.rs.  A Thunk is [signature, body, callee]; the      *)
(* replacement map is a function from the indices of the functions that    *)
(* get a thunk to their thunks.                                            *)
(***************************************************************************)
CALLEE_STACK_COST_PLACEHOLDER == 1248163264

RECURSIVE Flatten(_, _)
\* elem_segments.iter().flat_map(|segment| segment.members()) from segment i on
Flatten(segments, i) ==
    IF i > Len(segments) THEN <<>> ELSE segments[i] \o Flatten(segments, i + 1)

\* exported_func_indices.chain(table_func_indices).chain(start_func_idx)
ReferencedFuncs(module) ==
    SelectSeq([i \in 1..Len(module.exports) |->
                  IF module.exports[i].kind = "Function" THEN module.exports[i].index ELSE -1],
              LAMBDA x : x >= 0)
        \o Flatten(module.elements, 1)
        \o module.start

\* A thunk body that pushes the parameters in the reverse order.
ThunkBodyReversed(ctx, func_idx, signature, cost) ==
    [i \in 1..Len(signature.params) |-> GetLocal(Len(signature.params) - i)]
        \o instrument_call(func_idx, cost, ctx.stack_height_global_idx, ctx.stack_limit)
        \o <<End>>

\* The thunk body before the cost is known: the parameters, the
\* instrumented call with the placeholder, end.
ThunkBodyWith(ctx, func_idx, signature, cost) ==
    [i \in 1..Len(signature.params) |-> GetLocal(i - 1)]
        \o instrument_call(func_idx, cost, ctx.stack_height_global_idx, ctx.stack_limit)
        \o <<End>>

\* for instruction in thunk_body.iter_mut().filter(|i| **i == I32Const(PLACEHOLDER))
ReplacePlaceholder(thunk_body, callee_stack_cost) ==
    [i \in 1..Len(thunk_body) |->
        IF thunk_body[i] = I32Const(Num(CALLEE_STACK_COST_PLACEHOLDER))
            THEN I32Const(callee_stack_cost)
        ELSE thunk_body[i]]

\* The body of the first loop of generate_thunks for a function of cost
\* callee_stack_cost # 0: Ok of the Thunk, or the Err of a ?.
ThunkOf(ctx, module, func_idx, callee_stack_cost) ==
    LET signature == resolve_func_type(func_idx, module)
        thunk_body ==
            ThunkBodyWith(ctx, func_idx, signature.c, Num(CALLEE_STACK_COST_PLACEHOLDER))
        thunk_cost == compute_raw(signature.c, <<>>, thunk_body, module)
        charged == CheckedAdd32(callee_stack_cost, thunk_cost.c)
    IN  IF ~signature.ok THEN signature
        ELSE IF ~thunk_cost.ok THEN thunk_cost
        ELSE IF ~IsSome(charged) THEN Err("overflow during callee_stack_cost calculation")
        ELSE Ok([signature |-> signature.c,
                 callee |-> func_idx,
                 body |-> ReplacePlaceholder(thunk_body, charged[1])])

RECURSIVE CollectThunks(_, _, _, _, _)
\* The first loop of generate_thunks from reference i on: Ok of the
\* replacement map or the first Err.
CollectThunks(ctx, module, refs, i, replacement_map) ==
    LET callee_stack_cost == stack_cost(ctx, refs[i])
        thunk == ThunkOf(ctx, module, refs[i], callee_stack_cost[1])
    IN  IF i > Len(refs) THEN Ok(replacement_map)
        ELSE IF ~IsSome(callee_stack_cost) THEN Err("function index isn't found")
        ELSE IF callee_stack_cost[1] = Zero
            THEN CollectThunks(ctx, module, refs, i + 1, replacement_map)
        ELSE IF ~thunk.ok THEN thunk
        ELSE Only({CollectThunks(ctx, module, refs, i + 1, inserted) :
                    inserted \in {[k \in DOMAIN replacement_map \cup {refs[i]} |->
                                    IF k = refs[i] THEN thunk.c ELSE replacement_map[k]]}})

\* The orders in which replacement_map.values_mut() may give the thunks:
\* Map is a BTreeMap (by key) without the std feature and a HashMap (any
\* order) with it.
ThunkOrders(keys) ==
    {order \in [1..Cardinality(keys) -> keys] :
        \A i, j \in 1..Cardinality(keys) : i # j => order[i] # order[j]}

\* The index of the type equal to a signature (the builder finds the type
\* of the original function again).
TypeRefOf(module, signature) ==
    (CHOOSE i \in 1..Len(module.types) :
        /\ module.types[i] = signature
        /\ \A j \in 1..(i - 1) : module.types[j] # signature) - 1

\* thunk.idx of the thunk of a function under an order of the map
ThunkIdx(module, order, func_idx) ==
    functions_space(module) + (CHOOSE i \in 1..Len(order) : order[i] = func_idx) - 1

\* A fixup that leaves every index as it is.
FixupNothing(module, replacement_map, order, function_idx) == function_idx

\* fixup
fixup(module, replacement_map, order, function_idx) ==
    IF function_idx \in DOMAIN replacement_map THEN ThunkIdx(module, order, function_idx)
    ELSE function_idx

\* The module generate_thunks builds from a replacement map whose thunks
\* are taken in the given order.
WithThunks(module, replacement_map, order) ==
    [module EXCEPT
        !.functions = @ \o [i \in 1..Len(order) |->
            [type_ref |-> TypeRefOf(module, replacement_map[order[i]].signature),
             locals |-> <<>>,
             code |-> replacement_map[order[i]].body]],
        !.exports = [i \in 1..Len(@) |->
            IF @[i].kind = "Function"
                THEN [@[i] EXCEPT !.index = fixup(module, replacement_map, order, @)]
            ELSE @[i]],
        !.elements = [i \in 1..Len(@) |->
            [j \in 1..Len(@[i]) |-> fixup(module, replacement_map, order, @[i][j])]],
        !.start = [i \in 1..Len(@) |-> fixup(module, replacement_map, order, @[i])]]

\* The replacement map generate_thunks collects: [ok, c].
ReplacementMap(ctx, module) == CollectThunks(ctx, module, ReferencedFuncs(module), 1, <<>>)

\* generate_thunks: [ok, c] with c the module; the thunks are taken in the
\* given order of the keys of the replacement map.
generate_thunks(ctx, module, order) ==
    Only({IF ~collected.ok THEN collected ELSE Ok(WithThunks(module, collected.c, order)) :
            collected \in {ReplacementMap(ctx, module)}})

\* stack_limiter::inject up to the call of generate_thunks: [ok, c] with c
\* the [ctx, module] handed to generate_thunks.
BeforeThunks(module, stack_limit) ==
    Only({IF ~prepared.ok THEN prepared
          ELSE IF ~global.ok THEN global
          ELSE Only({Ok([ctx |-> ctx, module |-> instrument_functions(ctx, global.c.module)]) :
                        ctx \in {[prepared.c EXCEPT !.stack_height_global_idx = global.c.idx]}}) :
            prepared \in {prepare_context(module, stack_limit)},
            global \in {generate_stack_height_global(module)}})

\* stack_limiter::inject, exported as inject_stack_limiter
inject_stack_limiter(module, stack_limit, order) ==
    Only({IF ~before.ok THEN before
          ELSE generate_thunks(before.c.ctx, before.c.module, order) :
            before \in {BeforeThunks(module, stack_limit)}})

(***************************************************************************)
(* validate, for the modules of the model: the validation of WebAssembly   *)
(* 1.0 on modules whose values are all i32 and whose bodies are made of    *)
(* call, local.get, global.get, global.set, drop, i32.const, i32.add,      *)
(* i32.sub, i32.gt_u, if without result, unreachable and end.  With one    *)
(* value type the operand stack of the validation is a number of values.   *)
(* A validation state is [values, ctrl], ctrl the open control frames,     *)
(* each [height, unreachable, arity].                                      *)
(***************************************************************************)
ValidationFrame(height, arity) == [height |-> height, unreachable |-> FALSE, arity |-> arity]

\* pop_operand
PopOperand(v) ==
    IF v.values = v.ctrl[Len(v.ctrl)].height
        THEN IF v.ctrl[Len(v.ctrl)].unreachable THEN Ok(v) ELSE Err("type mismatch")
    ELSE Ok([v EXCEPT !.values = @ - 1])

RECURSIVE PopOperands(_, _)
PopOperands(r, n) ==
    IF ~r.ok \/ n = 0 THEN r ELSE PopOperands(PopOperand(r.c), n - 1)

\* pops operands and pushes results
Operate(v, pops, pushes) ==
    LET popped == PopOperands(Ok(v), pops)
    IN  IF ~popped.ok THEN popped ELSE Ok([popped.c EXCEPT !.values = @ + pushes])

\* The mutability of every global of the global index space, the imported
\* globals first.
GlobalMutability(module) ==
    SelectSeq([i \in 1..Len(module.imports) |->
                  IF module.imports[i].kind # "Global" THEN "none"
                  ELSE IF module.imports[i].mutable THEN "var" ELSE "const"],
              LAMBDA x : x # "none")
        \o [i \in 1..Len(module.globals) |->
                IF module.globals[i].mutable THEN "var" ELSE "const"]

\* The validation of one instruction of the body of func.
ValidateInstruction(v, opcode, func, module) ==
    LET ty == resolve_func_type(opcode.arg[1], module)
        top == v.ctrl[Len(v.ctrl)]
        closed == PopOperands(Ok(v), top.arity)
    IN  CASE opcode.op = "Call" ->
                IF ~ty.ok THEN ty ELSE Operate(v, Len(ty.c.params), Len(ty.c.results))
          [] opcode.op = "GetLocal" ->
                IF GeU(Num(opcode.arg[1]),
                       LocalsLen(module.types[func.type_ref + 1], func.locals))
                    THEN Err("unknown local")
                ELSE Operate(v, 0, 1)
          [] opcode.op = "GetGlobal" ->
                IF opcode.arg[1] >= Len(GlobalMutability(module)) THEN Err("unknown global")
                ELSE Operate(v, 0, 1)
          [] opcode.op = "SetGlobal" ->
                IF opcode.arg[1] >= Len(GlobalMutability(module)) THEN Err("unknown global")
                ELSE IF GlobalMutability(module)[opcode.arg[1] + 1] # "var"
                    THEN Err("global is immutable")
                ELSE Operate(v, 1, 0)
          [] opcode.op = "Drop" -> Operate(v, 1, 0)
          [] opcode.op = "I32Const" -> Operate(v, 0, 1)
          [] opcode.op \in {"I32Add", "I32Sub", "I32GtU"} -> Operate(v, 2, 1)
          [] opcode.op = "If" ->
                IF ~PopOperand(v).ok THEN PopOperand(v)
                ELSE Ok([PopOperand(v).c EXCEPT
                            !.ctrl = Append(@, ValidationFrame(PopOperand(v).c.values, 0))])
          [] opcode.op = "Unreachable" ->
                Ok([v EXCEPT !.values = top.height, !.ctrl[Len(v.ctrl)].unreachable = TRUE])
          [] opcode.op = "End" ->
                IF ~closed.ok THEN closed
                ELSE IF closed.c.values # top.height THEN Err("type mismatch")
                ELSE Ok([values |-> top.height + top.arity,
                         ctrl |-> SubSeq(v.ctrl, 1, Len(v.ctrl) - 1)])
          [] OTHER -> Err("not an instruction of the model")

RECURSIVE ValidateFrom(_, _, _, _)
\* The validation of the body of func from instruction i on.
ValidateFrom(r, i, func, module) ==
    IF ~r.ok \/ i > Len(func.code) THEN r
    ELSE IF r.c.ctrl = <<>> THEN Err("instructions after the end of the function")
    ELSE Only({ValidateFrom(validated, i + 1, func, module) :
                validated \in {ValidateInstruction(r.c, func.code[i], func, module)}})

\* A function: its type exists and its body is valid and closes its frame.
ValidFunc(func, module) ==
    /\ func.type_ref < Len(module.types)
    /\ \E r \in {ValidateFrom(
                    Ok([values |-> 0,
                        ctrl |-> <<ValidationFrame(
                                    0, Len(module.types[func.type_ref + 1].results))>>]),
                    1, func, module)} :
        r.ok /\ r.c.ctrl = <<>>

\* validate(&wasm): the module is valid.
validate(module) ==
    /\ \A i \in 1..Len(module.imports) :
        module.imports[i].kind = "Function" => module.imports[i].type_ref < Len(module.types)
    /\ \A i \in 1..Len(module.functions) : ValidFunc(module.functions[i], module)
    /\ \A i \in 1..Len(module.exports) :
        /\ module.exports[i].kind = "Function" =>
                module.exports[i].index < functions_space(module)
        /\ module.exports[i].kind = "Global" =>
                module.exports[i].index < Len(GlobalMutability(module))
        /\ \A j \in 1..Len(module.exports) :
                module.exports[i].field = module.exports[j].field => i = j
    /\ \A i \in 1..Len(module.elements) :
        /\ HasSection(module, "Table")
        /\ \A j \in 1..Len(module.elements[i]) :
                module.elements[i][j] < functions_space(module)
    /\ IsSome(module.start) =>
        /\ resolve_func_type(module.start[1], module).ok
        /\ resolve_func_type(module.start[1], module).c = [params |-> <<>>, results |-> <<>>]

(***************************************************************************)
(* State.                                                                  *)
(*   phase  : where the run is                                             *)
(*   rules  : the rule set handed to the pass                              *)
(*   func   : one function body and the arguments of inject_counter        *)
(*   meter  : the outcome of inject_counter on func                        *)
(*   run    : an execution of the instrumented body: the position pc, the  *)
(*            control stack of entered blocks, the last i64 constant put   *)
(*            on the value stack, the gas passed to the gas function, the  *)
(*            rule cost of the original instructions executed              *)
(*   module, backend : the module and the backend handed to inject         *)
(*   result : what inject returned                                         *)
(*   gas    : an instance of a module with the local gas function: the     *)
(*            value of the gas global and the run of the gas function      *)
(*   counter : the Counter of determine_metered_blocks and its cursor      *)
(*   limiter : a run of the stack limiter: the limit, the order in which   *)
(*            the replacement map gave its thunks, the Context and what    *)
(*            inject returned; run then is an execution of the module it   *)
(*            made: call frames, value stack and globals                   *)
(***************************************************************************)
VARIABLES phase, rules, func, meter, run, module, backend, result, gas, counter, limiter

vars == <<phase, rules, func, meter, run, module, backend, result, gas, counter, limiter>>

(***************************************************************************)
(* Function bodies the analysis is run on: every structurally well-formed  *)
(* body of at most MaxLen instructions (the function's closing end         *)
(* included) with blocks nested at most MaxDepth deep, over one ordinary   *)
(* instruction and the control instructions the analysis distinguishes.    *)
(* frames is the sequence of open control frames, "func" at the bottom.    *)
(* A br_table is drawn with two different labels; with twice the same      *)
(* label it is analysed and executed as the br to that label.              *)
(* LoopBodies are the bodies of at most MaxLen + 1 instructions that start *)
(* with a loop.                                                            *)
(***************************************************************************)
Labels(frames) == 0..(Len(frames) - 1)

NextInstructions(frames) ==
    {GetGlobal(0), End, Return}
        \cup (IF Len(frames) <= MaxDepth THEN {Block, Loop, If} ELSE {})
        \cup (IF frames[Len(frames)] = "If" THEN {Else} ELSE {})
        \cup {Br(l) : l \in Labels(frames)}
        \cup {BrIf(l) : l \in Labels(frames)}
        \cup {BrTable(<<p[1], p[2]>>) :
                p \in {q \in Labels(frames) \X Labels(frames) : q[1] # q[2]}}

FramesAfter(frames, ins) ==
    CASE ins.op \in {"Block", "Loop", "If"} -> Append(frames, ins.op)
      [] ins.op = "Else" -> [frames EXCEPT ![Len(frames)] = "Else"]
      [] ins.op = "End" -> SubSeq(frames, 1, Len(frames) - 1)
      [] OTHER -> frames

RECURSIVE BodiesFrom(_, _, _)
BodiesFrom(prefix, frames, max_len) ==
    IF frames = <<>> THEN {prefix}
    ELSE IF Len(prefix) + Len(frames) > max_len THEN {}
    ELSE UNION {BodiesFrom(Append(prefix, ins), FramesAfter(frames, ins), max_len) :
                    ins \in NextInstructions(frames)}

Bodies(max_len) == BodiesFrom(<<>>, <<"func">>, max_len)

LoopBodies(max_len) == BodiesFrom(<<Loop>>, <<"func", "Loop">>, max_len)


(***************************************************************************)
(* Inputs of the analysis of one body.                                     *)
(***************************************************************************)
\* A rule set whose costs differ by instruction; block costs nothing.
WeightedRules ==
    [cost |-> [o \in Ops |->
                CASE o = "Block" -> Some(Zero)
                  [] o \in {"Br", "BrIf", "BrTable", "Return"} -> Some(Num(2))
                  [] o = "GetGlobal" -> Some(Num(5))
                  [] OTHER -> Some(Num(1))],
     grow |-> None,
     perLocal |-> Num(3)]

\* The function index the charges call in the analysis of one body.
GasFuncIdx == 0

NoRun ==
    [pc |-> 0, ctrl |-> <<>>, tos |-> Zero, charged |-> Zero, executed |-> Zero,
     charges |-> 0, jumps |-> 0]

NoMeter == [blocks |-> [ok |-> FALSE, blocks |-> <<>>], ok |-> FALSE, code |-> <<>>]

NoFunc ==
    [instructions |-> <<>>, locals_count |-> Zero, gas_function_cost |-> Zero,
     gas_func |-> GasFuncIdx]

NoModule ==
    [imports |-> <<>>, globals |-> <<>>, functions |-> <<>>, exports |-> <<>>,
     elements |-> <<>>, start |-> None, names |-> <<>>]

NoBackend == [kind |-> "none"]

NoResult == [ok |-> FALSE, module |-> NoModule]

NoGas ==
    [globals |-> <<>>, status |-> "idle", pc |-> 0, stack |-> <<>>, local |-> Zero,
     initial |-> Zero, before |-> Zero, charged |-> Zero, overflow |-> FALSE,
     calls |-> 0, traps |-> 0]

NoCounter == [cursor |-> 0, r |-> Ok(NewCounter)]

NoLimiter == [status |-> "idle"]

\* The rules and the arguments of inject_counter besides the body.
\* HostArgs: a function without locals under the default rules, charged
\* through an imported gas function, which has no cost of its own.
HostArgs ==
    [rules |-> DefaultRules, locals_count |-> Zero, gas_function_cost |-> Zero,
     gas_func |-> GasFuncIdx]

\* LocalArgs: a function with one local under the weighted rules, charged
\* through a local gas function of cost 11.
LocalArgs ==
    [rules |-> WeightedRules, locals_count |-> Num(1), gas_function_cost |-> Num(11),
     gas_func |-> GasFuncIdx]

InitWith(bodies, args_set) ==
    /\ phase = "input"
    /\ \E instructions \in bodies, args \in args_set :
         /\ rules = args.rules
         /\ func = [instructions |-> instructions,
                    locals_count |-> args.locals_count,
                    gas_function_cost |-> args.gas_function_cost,
                    gas_func |-> args.gas_func]
    /\ meter = NoMeter
    /\ run = NoRun
    /\ module = NoModule
    /\ backend = NoBackend
    /\ result = NoResult
    /\ gas = NoGas
    /\ counter = NoCounter
    /\ limiter = NoLimiter

InitMeter == InitWith(Bodies(MaxLen), {HostArgs, LocalArgs})

InitLoop == InitWith(LoopBodies(MaxLen + 1), {HostArgs})

MeterOutcome(blocks, inserted) ==
    [blocks |-> blocks, ok |-> inserted.ok, code |-> inserted.code]

\* inject_counter, keeping the blocks that determine_metered_blocks returned.
InjectCounterWith(blocks) ==
    MeterOutcome(blocks,
        InsertIfOk(func.instructions, func.gas_function_cost, blocks, func.gas_func))

\* inject_counter is applied to the body; the instrumented body is then entered.
InjectCounter ==
    /\ phase = "input"
    /\ meter' = InjectCounterWith(
                    determine_metered_blocks(func.instructions, rules, func.locals_count))
    /\ phase' = IF meter'.ok THEN "running" ELSE "failed"
    /\ UNCHANGED <<counter, limiter, module, backend, result, gas, rules, func, run>>

(***************************************************************************)
(* Execution of an instrumented body.  Only control flow is followed: the  *)
(* condition of if and br_if and the index of br_table are free choices.   *)
(* A control-stack entry is [is_loop, open_pos]; positions count from 0.   *)
(* A branch to a loop continues at the first instruction of the loop body, *)
(* a branch to a block or if continues after its end, a branch to the      *)
(* function frame returns.                                                 *)
(***************************************************************************)
RECURSIVE ScanFrom(_, _, _, _)
\* The position of the end (stop_at_else FALSE), or of the else if there is
\* one and else the end (stop_at_else TRUE), that closes the frame whose body
\* starts at pos, depth frames being open inside it.
ScanFrom(code, pos, depth, stop_at_else) ==
    CASE code[pos + 1].op \in {"Block", "Loop", "If"} ->
            ScanFrom(code, pos + 1, depth + 1, stop_at_else)
      [] code[pos + 1].op = "End" ->
            IF depth = 0 THEN pos ELSE ScanFrom(code, pos + 1, depth - 1, stop_at_else)
      [] code[pos + 1].op = "Else" /\ depth = 0 /\ stop_at_else -> pos
      [] OTHER -> ScanFrom(code, pos + 1, depth, stop_at_else)

EndOf(code, open_pos) == ScanFrom(code, open_pos + 1, 0, FALSE)
ElseOrEndOf(code, open_pos) == ScanFrom(code, open_pos + 1, 0, TRUE)

Current == meter.code[run.pc + 1]

\* An instruction put in by insert_metering_calls: the bodies drawn hold no
\* i64.const and no call of their own.
IsCharge(ins) == ins.op \in {"I64Const", "Call"}

\* The rule cost of an executed instruction of the original body.
ExecutedCost(ins) ==
    IF ins.op \in {"End", "Else"} \/ IsCharge(ins) THEN Zero
    ELSE instruction_cost(rules, ins)[1]

Executing(ops) == phase = "running" /\ Current.op \in ops

Advance(r) == [r EXCEPT !.pc = @ + 1, !.executed = WrappingAdd(@, ExecutedCost(Current))]

\* i64.const c: the constant is put on the value stack.
ExecConst ==
    /\ Executing({"I64Const"})
    /\ run' = [Advance(run) EXCEPT !.tos = Current.arg]
    /\ UNCHANGED <<counter, limiter, module, backend, result, gas, phase, rules, func, meter>>

\* call gas: the gas function is passed the value on the stack and returns.
ExecGasCall ==
    /\ Executing({"Call"})
    /\ Current.arg[1] = func.gas_func
    /\ run' = [Advance(run) EXCEPT !.charged = WrappingAdd(@, run.tos), !.charges = @ + 1]
    /\ UNCHANGED <<counter, limiter, module, backend, result, gas, phase, rules, func, meter>>

\* call gas: the gas function traps because the gas is used up.
ExecOutOfGas ==
    /\ Executing({"Call"})
    /\ Current.arg[1] = func.gas_func
    /\ phase' = "trapped"
    /\ UNCHANGED <<counter, limiter, module, backend, result, gas, rules, func, meter, run>>

\* An instruction that is no control instruction.
ExecPlain ==
    /\ Executing({"GetGlobal"})
    /\ run' = Advance(run)
    /\ UNCHANGED <<counter, limiter, module, backend, result, gas, phase, rules, func, meter>>

\* block, loop: the frame is entered.
ExecBlock ==
    /\ Executing({"Block", "Loop"})
    /\ run' = [Advance(run) EXCEPT
                !.ctrl = Append(@, [is_loop |-> Current.op = "Loop", open_pos |-> run.pc])]
    /\ UNCHANGED <<counter, limiter, module, backend, result, gas, phase, rules, func, meter>>

\* if: the then arm is entered, or the else arm if there is one, or the whole
\* if is skipped.
ExecIf ==
    /\ Executing({"If"})
    /\ \/ run' = [Advance(run) EXCEPT
                    !.ctrl = Append(@, [is_loop |-> FALSE, open_pos |-> run.pc])]
       \/ /\ meter.code[ElseOrEndOf(meter.code, run.pc) + 1].op = "Else"
          /\ run' = [Advance(run) EXCEPT
                        !.pc = ElseOrEndOf(meter.code, run.pc) + 1,
                        !.ctrl = Append(@, [is_loop |-> FALSE, open_pos |-> run.pc])]
       \/ /\ meter.code[ElseOrEndOf(meter.code, run.pc) + 1].op = "End"
          /\ run' = [Advance(run) EXCEPT !.pc = ElseOrEndOf(meter.code, run.pc) + 1]
    /\ UNCHANGED <<counter, limiter, module, backend, result, gas, phase, rules, func, meter>>

\* else, reached at the end of the then arm: the else arm is skipped.
ExecElse ==
    /\ Executing({"Else"})
    /\ run' = [run EXCEPT !.pc = EndOf(meter.code, run.ctrl[Len(run.ctrl)].open_pos)]
    /\ UNCHANGED <<counter, limiter, module, backend, result, gas, phase, rules, func, meter>>

\* end of a block, loop or if: the frame is left.
ExecEnd ==
    /\ Executing({"End"})
    /\ run.ctrl # <<>>
    /\ run' = [run EXCEPT !.pc = @ + 1, !.ctrl = SubSeq(@, 1, Len(@) - 1)]
    /\ UNCHANGED <<counter, limiter, module, backend, result, gas, phase, rules, func, meter>>

\* The labels an executed branch instruction may take.
TakenLabels(ins) ==
    IF ins.op = "Return" THEN {Len(run.ctrl)}
    ELSE {ins.arg[i] : i \in 1..Len(ins.arg)}

\* br, br_if (taken), br_table, return with label l: out of the function, back
\* to the head of a loop, or forward past the end of a block or if.
ExecBranch ==
    /\ Executing({"Br", "BrIf", "BrTable", "Return"})
    /\ \E l \in TakenLabels(Current) :
        LET target == Len(run.ctrl) - l
        IN  \/ /\ target = 0
               /\ phase' = "returned"
               /\ run' = [Advance(run) EXCEPT !.pc = run.pc]
            \/ /\ target > 0
               /\ run.ctrl[target].is_loop
               /\ run.jumps < MaxJumps
               /\ phase' = phase
               /\ run' = [Advance(run) EXCEPT
                            !.pc = run.ctrl[target].open_pos + 1,
                            !.ctrl = SubSeq(@, 1, target),
                            !.jumps = @ + 1]
            \/ /\ target > 0
               /\ ~run.ctrl[target].is_loop
               /\ phase' = phase
               /\ run' = [Advance(run) EXCEPT
                            !.pc = EndOf(meter.code, run.ctrl[target].open_pos) + 1,
                            !.ctrl = SubSeq(@, 1, target - 1)]
    /\ UNCHANGED <<counter, limiter, module, backend, result, gas, rules, func, meter>>

\* br_if whose condition is false.
ExecBrIfNotTaken ==
    /\ Executing({"BrIf"})
    /\ run' = Advance(run)
    /\ UNCHANGED <<counter, limiter, module, backend, result, gas, phase, rules, func, meter>>

\* The end of the function body.
ExecReturn ==
    /\ Executing({"End"})
    /\ run.ctrl = <<>>
    /\ phase' = "returned"
    /\ UNCHANGED <<counter, limiter, module, backend, result, gas, rules, func, meter, run>>

NextMeter ==
    \/ InjectCounter
    \/ ExecConst
    \/ ExecGasCall
    \/ ExecOutOfGas
    \/ ExecPlain
    \/ ExecBlock
    \/ ExecIf
    \/ ExecElse
    \/ ExecEnd
    \/ ExecBranch
    \/ ExecBrIfNotTaken
    \/ ExecReturn

SpecMeter == InitMeter /\ [][NextMeter]_vars

SpecLoop == InitLoop /\ [][NextMeter]_vars

(***************************************************************************)
(* inject on whole modules.  The modules drawn have up to MaxImports       *)
(* imports (functions and globals in any order), one defined global, up to *)
(* MaxFuncs defined functions, a function export and a global export, two  *)
(* element segments, a start function or none, and a name for every        *)
(* function; every function index they hold is inside the function space.  *)
(* The bodies call every function, grow the memory, hold a forbidden       *)
(* instruction (for ForbidRules), branch out of the function (malformed)   *)
(* or declare more than u32::MAX locals.                                   *)
(***************************************************************************)
ImportOf(kind) ==
    [kind |-> kind, module |-> "env", field |-> IF kind = "Function" THEN "ext" ELSE "glob"]

ImportSeqs ==
    UNION {[1..n -> {ImportOf("Function"), ImportOf("Global")}] : n \in 0..MaxImports}

FuncChoices(space) ==
    {[locals |-> <<>>, code |-> <<Call(k), End>>] : k \in 0..(space - 1)}
        \cup {[locals |-> <<Num(2)>>, code |-> <<GetGlobal(0), GrowMemory, End>>],
              [locals |-> <<Num(1), Num(1)>>,
               code |-> <<Block, Call(space - 1), BrIf(0), GrowMemory, End, Call(0), End>>],
              [locals |-> <<>>, code |-> <<Unreachable, End>>],
              [locals |-> <<>>, code |-> <<Br(1), End>>],
              [locals |-> <<U32Max, Num(1)>>, code |-> <<End>>]}

ModuleOf(imports, functions, space, x) ==
    [imports |-> imports,
     globals |-> <<[value_type |-> "I32", mutable |-> FALSE, init |-> Zero]>>,
     functions |-> functions,
     exports |-> <<[field |-> "main", kind |-> "Function", index |-> x],
                   [field |-> "glob", kind |-> "Global", index |-> 0]>>,
     elements |-> <<<<space - 1, 0>>, <<x>>>>,
     start |-> IF x = 0 THEN None ELSE Some(space - x),
     names |-> [k \in 1..space |-> <<k - 1, <<"f", k - 1>>>>]]

ModulesWith(imports, n, space) ==
    {ModuleOf(imports, functions, space, x) :
        functions \in [1..n -> FuncChoices(space)], x \in 0..(space - 1)}

Modules ==
    UNION {ModulesWith(imports, n, CountKind(imports, "Function") + n) :
            imports \in ImportSeqs, n \in 1..MaxFuncs}

\* ConstantCostRules::new(1, 10_000, 1), the rules of the tests that grow memory.
GrowRules == ConstantCostRules(Num(1), Num(10000), Num(1))

\* Rules that forbid unreachable and charge three per page grown.
ForbidRules ==
    [cost |-> [o \in Ops |-> IF o = "Unreachable" THEN None ELSE Some(Num(2))],
     grow |-> Some(Num(3)),
     perLocal |-> Num(1)]

\* Rules with every cost u32::MAX.
MaxRules == ConstantCostRules(U32Max, Zero, U32Max)

RuleSets == {DefaultRules, GrowRules, WeightedRules, ForbidRules, MaxRules}

Backends ==
    {[kind |-> "host_function", module |-> "env", name |-> "gas"],
     [kind |-> "mutable_global", global_name |-> "gas_left"]}

Init ==
    /\ phase = "input"
    /\ rules \in RuleSets
    /\ module \in Modules
    /\ backend \in Backends
    /\ result = NoResult
    /\ func = NoFunc
    /\ meter = NoMeter
    /\ run = NoRun
    /\ gas = NoGas
    /\ counter = NoCounter
    /\ limiter = NoLimiter

\* gas_metering::inject is called on the module.
Inject ==
    /\ phase = "input"
    /\ result' = inject(module, backend, rules)
    /\ phase' = IF result'.ok THEN "done" ELSE "failed"
    /\ UNCHANGED <<counter, limiter, rules, module, backend, func, meter, run, gas>>

Next == Inject

Spec == Init /\ [][Next]_vars

(***************************************************************************)
(* The local gas function at work.  A module is instrumented with the      *)
(* mutable-global backend and instantiated; the host writes a value into   *)
(* the exported gas global; the gas function is then called, by a charge   *)
(* of an instrumented body or by the grow counter, with any of Charges,    *)
(* and its body is executed instruction by instruction on a value stack.   *)
(* A call may follow a trap: the instance lives on.                        *)
(*   globals : the value of every global of the instance, by index         *)
(*   status  : "idle" before the first call, "running" inside the gas      *)
(*             function, "returned" or "trapped" after it                  *)
(*   local   : local 0 of the running call, the charge                     *)
(*   before  : the gas global when the call was made                       *)
(*   initial, charged, overflow, calls, traps : the value the host wrote,  *)
(*             the sum of the charges that returned and whether that sum   *)
(*             passed u64::MAX, the number of calls and of traps           *)
(***************************************************************************)
Pow63 == <<0, 0, 0, 0, 0, 0, 0, 128>>

InitialGas == {Zero, Num(1), Num(5), Num(300), Pow63, WrappingSub(U64Max, Num(1)), U64Max}

Charges == {Zero, Num(1), Num(5), Num(256), Pow63, U64Max}

GasModules ==
    {ModuleOf(imports, <<[locals |-> <<>>, code |-> <<GetGlobal(0), End>>]>>,
              CountKind(imports, "Function") + 1, 0) :
        imports \in {<<>>, <<ImportOf("Global")>>, <<ImportOf("Function"), ImportOf("Global")>>}}

MutableGlobal == [kind |-> "mutable_global", global_name |-> "gas_left"]

\* The index of the global that the instrumented module exports under name.
ExportedGlobal(injected, name) ==
    (CHOOSE e \in {injected.exports[i] : i \in 1..Len(injected.exports)} :
        e.kind = "Global" /\ e.field = name).index

\* The value of the exported gas global of the instance.
GasLeft == gas.globals[ExportedGlobal(result.module, backend.global_name) + 1]

\* The body of the gas function of the instrumented module: the function
\* that inject appended to the defined functions of the input.
GasCode == result.module.functions[Len(module.functions) + 1].code

InitGas ==
    /\ phase = "instantiated"
    /\ rules = DefaultRules
    /\ module \in GasModules
    /\ backend = MutableGlobal
    /\ result = inject(module, backend, rules)
    /\ \E value \in InitialGas :
        gas = [NoGas EXCEPT
                !.globals = [g \in 1..(CountKind(result.module.imports, "Global")
                                        + Len(result.module.globals)) |->
                    IF g = ExportedGlobal(result.module, backend.global_name) + 1
                    THEN value ELSE Zero],
                !.initial = value]
    /\ func = NoFunc
    /\ meter = NoMeter
    /\ run = NoRun
    /\ counter = NoCounter
    /\ limiter = NoLimiter

GasAt(ops) == phase = "instantiated" /\ gas.status = "running" /\ GasCode[gas.pc + 1].op \in ops

GasInstr == GasCode[gas.pc + 1]

\* The two values on top of the stack, the first pushed first.
Below(stack) == stack[Len(stack) - 1]
Top(stack) == stack[Len(stack)]
Pop(stack, n) == SubSeq(stack, 1, Len(stack) - n)

\* The gas function is called with a charge.
CallGas ==
    /\ phase = "instantiated"
    /\ gas.status # "running"
    /\ gas.calls < MaxCalls
    /\ \E charge \in Charges :
        gas' = [gas EXCEPT !.status = "running", !.pc = 0, !.stack = <<>>,
                           !.local = charge, !.before = GasLeft, !.calls = @ + 1]
    /\ UNCHANGED <<counter, limiter, phase, rules, func, meter, run, module, backend, result>>

GasGetGlobal ==
    /\ GasAt({"GetGlobal"})
    /\ gas' = [gas EXCEPT !.pc = @ + 1,
                           !.stack = Append(@, gas.globals[GasInstr.arg[1] + 1])]
    /\ UNCHANGED <<counter, limiter, phase, rules, func, meter, run, module, backend, result>>

GasGetLocal ==
    /\ GasAt({"GetLocal"})
    /\ GasInstr.arg[1] = 0
    /\ gas' = [gas EXCEPT !.pc = @ + 1, !.stack = Append(@, gas.local)]
    /\ UNCHANGED <<counter, limiter, phase, rules, func, meter, run, module, backend, result>>

\* i64.ge_u: 1 if the first operand is at least the second, unsigned.
GasI64GeU ==
    /\ GasAt({"I64GeU"})
    /\ gas' = [gas EXCEPT !.pc = @ + 1,
                !.stack = Append(Pop(@, 2),
                    IF GeU(Below(gas.stack), Top(gas.stack)) THEN Num(1) ELSE Zero)]
    /\ UNCHANGED <<counter, limiter, phase, rules, func, meter, run, module, backend, result>>

\* if: the then arm when the condition is not zero, else past the end.
GasIf ==
    /\ GasAt({"If"})
    /\ gas' = [gas EXCEPT
                !.pc = IF Top(gas.stack) # Zero THEN gas.pc + 1
                       ELSE ElseOrEndOf(GasCode, gas.pc) + 1,
                !.stack = Pop(@, 1)]
    /\ UNCHANGED <<counter, limiter, phase, rules, func, meter, run, module, backend, result>>

GasI64Sub ==
    /\ GasAt({"I64Sub"})
    /\ gas' = [gas EXCEPT !.pc = @ + 1,
                !.stack = Append(Pop(@, 2), WrappingSub(Below(gas.stack), Top(gas.stack)))]
    /\ UNCHANGED <<counter, limiter, phase, rules, func, meter, run, module, backend, result>>

GasSetGlobal ==
    /\ GasAt({"SetGlobal"})
    /\ gas' = [gas EXCEPT !.pc = @ + 1, !.stack = Pop(@, 1),
                           !.globals[GasInstr.arg[1] + 1] = Top(gas.stack)]
    /\ UNCHANGED <<counter, limiter, phase, rules, func, meter, run, module, backend, result>>

GasI64Const ==
    /\ GasAt({"I64Const"})
    /\ gas' = [gas EXCEPT !.pc = @ + 1, !.stack = Append(@, GasInstr.arg)]
    /\ UNCHANGED <<counter, limiter, phase, rules, func, meter, run, module, backend, result>>

\* return: the call is over and its charge is counted.
GasReturn ==
    /\ GasAt({"Return"})
    /\ gas' = [gas EXCEPT !.status = "returned", !.stack = <<>>,
                !.charged = Low(AddLimbs(@, gas.local, 1, 0)),
                !.overflow = @ \/ AddLimbs(gas.charged, gas.local, 1, 0)[Limbs + 1] = 1]
    /\ UNCHANGED <<counter, limiter, phase, rules, func, meter, run, module, backend, result>>

\* unreachable: the call traps.
GasUnreachable ==
    /\ GasAt({"Unreachable"})
    /\ gas' = [gas EXCEPT !.status = "trapped", !.stack = <<>>, !.traps = @ + 1]
    /\ UNCHANGED <<counter, limiter, phase, rules, func, meter, run, module, backend, result>>

NextGas ==
    \/ CallGas
    \/ GasGetGlobal
    \/ GasGetLocal
    \/ GasI64GeU
    \/ GasIf
    \/ GasI64Sub
    \/ GasSetGlobal
    \/ GasI64Const
    \/ GasReturn
    \/ GasUnreachable

SpecGas == InitGas /\ [][NextGas]_vars

(***************************************************************************)
(* Properties of the analysis and of the execution of instrumented bodies. *)
(***************************************************************************)
\* locals_init_cost of determine_metered_blocks for the function analysed.
LocalsInitCost == CheckedMul32(call_per_local_cost(rules), func.locals_count)[1]

\* The gas function's own cost over the charges executed so far.
GasCallsCost == WrappingMul(func.gas_function_cost, Num(run.charges))

\* The number of blocks that start at or before the original position pos.
BlocksUpTo(blocks, pos) == Cardinality({j \in 1..Len(blocks) : blocks[j].start_pos <= pos})

\* C3: at every point of every execution of an instrumented body, the gas
\* already passed to the gas function is at least the sum of the rule costs of
\* the instructions executed so far (end and else cost nothing).
C3_ExecutedIsPaid ==
    phase \in {"running", "returned", "trapped"} => GeU(run.charged, run.executed)

\* A body returned after a branch back to a loop head, three charges made.
C3_Witness ==
    /\ phase = "returned"
    /\ run.jumps >= 1
    /\ run.charges >= 3
    /\ run.executed # Zero

\* C4: when an execution of an instrumented body returns without a trap, the
\* gas charged equals the rule cost of the instructions executed, plus the
\* per-local surcharge and the gas function's own cost for each charge.
C4_ChargedIsExecuted ==
    phase = "returned" =>
        run.charged = WrappingAdd(run.executed, WrappingAdd(LocalsInitCost, GasCallsCost))

\* C5: the metered blocks are sorted by start_pos with distinct positions; the
\* instrumented body is two instructions longer per block, holds
\* i64.const <cost> ; call <gas_func> right before the instruction at each
\* start_pos, and holds the original instructions unchanged and in order; no
\* block is left unplaced.  Stated of the state inject_counter leaves.
C5_ChargesPlaced ==
    (phase \in {"running", "failed"} /\ run = NoRun /\ meter.blocks.ok) =>
        LET blocks == meter.blocks.blocks
            original == func.instructions
        IN  /\ meter.ok
            /\ \A j \in 1..(Len(blocks) - 1) : blocks[j].start_pos < blocks[j + 1].start_pos
            /\ \A j \in 1..Len(blocks) : blocks[j].start_pos < Len(original)
            /\ Len(meter.code) = Len(original) + 2 * Len(blocks)
            /\ \A j \in 1..Len(blocks) :
                    /\ meter.code[blocks[j].start_pos + 2 * j - 1] =
                            I64Const(WrappingAdd(blocks[j].cost, func.gas_function_cost))
                    /\ meter.code[blocks[j].start_pos + 2 * j] = Call(func.gas_func)
            /\ \A pos \in 0..(Len(original) - 1) :
                    meter.code[pos + 1 + 2 * BlocksUpTo(blocks, pos)] = original[pos + 1]

\* A body instrumented with three charges.
C5_Witness ==
    /\ phase = "running"
    /\ run = NoRun
    /\ meter.ok
    /\ Len(meter.blocks.blocks) >= 3
    /\ Len(meter.code) = Len(func.instructions) + 6

(***************************************************************************)
(* Properties of inject on whole modules.                                  *)
(***************************************************************************)
\* The counts of the input module, taken from its import list.
OldImportCount == Cardinality({i \in 1..Len(module.imports) : module.imports[i].kind = "Function"})
OldFunctionsSpace == OldImportCount + Len(module.functions)
OldGlobalsSpace ==
    Cardinality({i \in 1..Len(module.imports) : module.imports[i].kind = "Global"})
        + Len(module.globals)

\* Where a function index of the input is found with the host-function backend.
Moved(k) == IF k >= OldImportCount THEN k + 1 ELSE k

\* The instructions of a body of the output that are no charge: neither an
\* i64.const (the input bodies hold none) nor a call of the gas function.
Originals(code, gas_func) ==
    SelectSeq(code, LAMBDA ins : ins.op # "I64Const" /\ ins # Call(gas_func))

\* The constants of the charges of a body of the output, in order.
ChargeConstants(code) == SelectSeq(code, LAMBDA ins : ins.op = "I64Const")

\* Every i64.const of the body is followed by a call of gas_func.
ChargesCall(code, gas_func) ==
    \A i \in 1..Len(code) :
        code[i].op = "I64Const" => (i < Len(code) /\ code[i + 1] = Call(gas_func))

HasCall(code, indices) ==
    \E i \in 1..Len(code) : code[i].op = "Call" /\ code[i].arg[1] \in indices

HasGrow(code) == \E i \in 1..Len(code) : code[i].op = "GrowMemory"

\* C1: when inject fails, the module it returns in Err is the input module,
\* with nothing added and no index shifted.
C1_ErrReturnsInput ==
    (phase \in {"done", "failed"} /\ ~result.ok) => result.module = module

\* A failure in the second body, with the host-function backend, of a module
\* whose first body calls a function that the new import would shift.
C1_Witness ==
    /\ phase = "failed"
    /\ backend.kind = "host_function"
    /\ Len(module.functions) = 2
    /\ module.functions[1].code = <<Call(OldImportCount), End>>
    /\ module.functions[2].code = <<Unreachable, End>>
    /\ rules = ForbidRules
    /\ result.module = module

\* C2: with the host-function backend the gas import is the last import, so
\* its function index is N, the number of function imports of the input;
\* every function index k of a call of an original body, of a function
\* export, of an element segment, of the start section and of a function name
\* is found as k + 1 if k >= N and as k if k < N; every charge calls N.
C2_ExternalShift ==
    (phase = "done" /\ backend.kind = "host_function") =>
        LET out == result.module
        IN  /\ out.imports = Append(module.imports,
                    [kind |-> "Function", module |-> backend.module, field |-> backend.name])
            /\ Len(out.functions) >= Len(module.functions)
            /\ \A f \in 1..Len(module.functions) :
                    /\ ChargesCall(out.functions[f].code, OldImportCount)
                    /\ Len(Originals(out.functions[f].code, OldImportCount)) =
                            Len(module.functions[f].code)
                    /\ \A i \in 1..Len(module.functions[f].code) :
                            module.functions[f].code[i].op = "Call" =>
                                Originals(out.functions[f].code, OldImportCount)[i] =
                                    Call(Moved(module.functions[f].code[i].arg[1]))
            /\ Len(out.exports) = Len(module.exports)
            /\ \A e \in 1..Len(module.exports) :
                    out.exports[e] =
                        IF module.exports[e].kind = "Function"
                        THEN [module.exports[e] EXCEPT !.index = Moved(@)]
                        ELSE module.exports[e]
            /\ Len(out.elements) = Len(module.elements)
            /\ \A g \in 1..Len(module.elements) :
                    /\ Len(out.elements[g]) = Len(module.elements[g])
                    /\ \A m \in 1..Len(module.elements[g]) :
                            out.elements[g][m] = Moved(module.elements[g][m])
            /\ out.start = IF module.start = None THEN None ELSE Some(Moved(module.start[1]))
            /\ Len(out.names) = Len(module.names)
            /\ \A n \in 1..Len(module.names) :
                    out.names[n] = <<Moved(module.names[n][1]), module.names[n][2]>>

\* A module with two function imports, instrumented with the host-function
\* backend, whose body calls below and above N, whose export is above N and
\* whose start function is below N.
C2_Witness ==
    /\ phase = "done"
    /\ backend.kind = "host_function"
    /\ OldImportCount = 2
    /\ \E f \in 1..Len(module.functions) :
            /\ HasCall(module.functions[f].code, 0..(OldImportCount - 1))
            /\ HasCall(module.functions[f].code, OldImportCount..OldFunctionsSpace)
            /\ HasCall(result.module.functions[f].code, {OldImportCount + 1})
    /\ module.exports[1].index >= OldImportCount
    /\ module.start # None
    /\ module.start[1] < OldImportCount

\* C8: with the mutable-global backend the imports, the element segments,
\* the start index and the names are those of the input, the calls of the
\* original bodies keep their index, the exports are those of the input and
\* then the gas global under the configured name, the gas global is a new
\* last global, mutable i64 with initial value 0, whose index is the size of
\* the input's global space, and the gas function is appended so that its
\* index is the size of the input's function space, which every charge calls.
C8_InternalKeepsIndices ==
    (phase = "done" /\ backend.kind = "mutable_global") =>
        LET out == result.module
        IN  /\ out.imports = module.imports
            /\ out.elements = module.elements
            /\ out.start = module.start
            /\ out.names = module.names
            /\ out.exports = Append(module.exports,
                    [field |-> backend.global_name, kind |-> "Global",
                     index |-> OldGlobalsSpace])
            /\ out.globals = Append(module.globals,
                    [value_type |-> "I64", mutable |-> TRUE, init |-> Zero])
            /\ Len(out.functions) > Len(module.functions)
            /\ out.functions[Len(module.functions) + 1].code =
                    func_instructions(OldGlobalsSpace)
            /\ \A f \in 1..Len(module.functions) :
                    /\ ChargesCall(out.functions[f].code, OldFunctionsSpace)
                    /\ Len(Originals(out.functions[f].code, OldFunctionsSpace)) =
                            Len(module.functions[f].code)
                    /\ \A i \in 1..Len(module.functions[f].code) :
                            module.functions[f].code[i].op = "Call" =>
                                Originals(out.functions[f].code, OldFunctionsSpace)[i] =
                                    module.functions[f].code[i]

\* A module with a function import and a global import, instrumented with the
\* mutable-global backend, one of whose bodies calls a defined function.
C8_Witness ==
    /\ phase = "done"
    /\ backend.kind = "mutable_global"
    /\ OldImportCount >= 1
    /\ OldGlobalsSpace >= 2
    /\ \E f \in 1..Len(module.functions) :
            /\ HasCall(module.functions[f].code, OldImportCount..OldFunctionsSpace)
            /\ HasCall(result.module.functions[f].code, {OldFunctionsSpace})

\* The instructions of the gas function that are charged: its body without
\* the three instructions of the fail path.
ChargedInstructions ==
    <<GetGlobal(OldGlobalsSpace), GetLocal(0), I64GeU, If, GetGlobal(OldGlobalsSpace),
      GetLocal(0), I64Sub, SetGlobal(OldGlobalsSpace), Return, End, End>>

\* The metered blocks of body f of the input, its locals counted.
BlocksOf(f) ==
    determine_metered_blocks(module.functions[f].code, rules,
        LocalsCount(module.functions[f].locals, 1, Some(Zero))[1]).blocks

\* The constants are those of the blocks, each with self_cost added.
ConstantsAre(constants, blocks, self_cost) ==
    /\ Len(constants) = Len(blocks)
    /\ \A j \in 1..Len(blocks) :
            constants[j] = I64Const(Low(AddLimbs(blocks[j].cost, self_cost, 1, 0)))

\* C9: with the mutable-global backend the subtraction of the fail path's
\* cost from the cost of the gas function's body does not underflow, and
\* self_cost is the sum of the rule costs of the other instructions of the
\* body, 11 under the default rules; the constant of every inserted charge is
\* the cost of its metered block plus self_cost.
C9_SelfCost ==
    (phase \in {"done", "failed"} /\ backend.kind = "mutable_global") =>
        /\ ~gas_meter(backend, module, rules).underflow
        /\ gas_meter(backend, module, rules).cost = FoldCost(rules, ChargedInstructions, 1)
        /\ rules = DefaultRules => gas_meter(backend, module, rules).cost = Num(11)
        /\ phase = "done" =>
                \A f \in 1..Len(module.functions) :
                    ConstantsAre(ChargeConstants(result.module.functions[f].code),
                                 BlocksOf(f), FoldCost(rules, ChargedInstructions, 1))

\* A module instrumented with the mutable-global backend under rules whose
\* costs differ by instruction, a body of which got two charges.
C9_Witness ==
    /\ phase = "done"
    /\ backend.kind = "mutable_global"
    /\ rules = WeightedRules
    /\ \E f \in 1..Len(module.functions) :
            Len(ChargeConstants(result.module.functions[f].code)) >= 2

\* C10: when memory_grow_cost is Linear, every memory.grow of an original
\* body is found as a call of the last function of the output's function
\* space, none is left, and the output has one function more, whose body
\* grows the memory, exactly if some original body held a memory.grow; when it
\* is Free every memory.grow is kept and no such function is added.
C10_GrowCounter ==
    phase = "done" =>
        LET out == result.module
            gas_func == IF backend.kind = "host_function" THEN OldImportCount
                        ELSE OldFunctionsSpace
            appended == IF backend.kind = "host_function" THEN 0 ELSE 1
            last == Cardinality({i \in 1..Len(out.imports) :
                        out.imports[i].kind = "Function"}) + Len(out.functions) - 1
            grows == \E f \in 1..Len(module.functions) : HasGrow(module.functions[f].code)
        IN  IF rules.grow # None
            THEN /\ \A f \in 1..Len(module.functions) :
                        /\ ~HasGrow(out.functions[f].code)
                        /\ Len(Originals(out.functions[f].code, gas_func)) =
                                Len(module.functions[f].code)
                        /\ \A i \in 1..Len(module.functions[f].code) :
                                module.functions[f].code[i].op = "GrowMemory" =>
                                    Originals(out.functions[f].code, gas_func)[i] = Call(last)
                 /\ Len(out.functions) =
                        Len(module.functions) + appended + (IF grows THEN 1 ELSE 0)
                 /\ grows =>
                        /\ HasGrow(out.functions[Len(out.functions)].code)
                        /\ HasCall(out.functions[Len(out.functions)].code, {gas_func})
            ELSE /\ \A f \in 1..Len(module.functions) :
                        /\ Len(Originals(out.functions[f].code, gas_func)) =
                                Len(module.functions[f].code)
                        /\ \A i \in 1..Len(module.functions[f].code) :
                                module.functions[f].code[i].op = "GrowMemory" =>
                                    Originals(out.functions[f].code, gas_func)[i] = GrowMemory
                 /\ Len(out.functions) = Len(module.functions) + appended

\* A module of two functions that both grow the memory, instrumented under
\* rules with a Linear cost: one grow counter was appended.
C10_Witness ==
    /\ phase = "done"
    /\ rules.grow # None
    /\ Len(module.functions) = 2
    /\ \A f \in 1..2 : HasGrow(module.functions[f].code)
    /\ Len(result.module.functions) = 3 + (IF backend.kind = "host_function" THEN 0 ELSE 1)

(***************************************************************************)
(* Properties of the local gas function.                                   *)
(***************************************************************************)
\* C6: a call of the gas function with charge k while the gas global holds G
\* returns only if G >= k, and then the global holds G - k; it traps only if
\* G < k, and then the global holds u64::MAX.  As long as no call has trapped
\* the global plus the sum of the charges is the initial value: the global
\* never wrapped around.
C6_GasFunction ==
    (phase = "instantiated" /\ gas.status # "running") =>
        /\ gas.status = "returned" =>
                /\ GeU(gas.before, gas.local)
                /\ AddLimbs(GasLeft, gas.local, 1, 0) = gas.before \o <<0>>
        /\ gas.status = "trapped" =>
                /\ LtU(gas.before, gas.local)
                /\ GasLeft = U64Max
        /\ gas.traps = 0 =>
                /\ ~gas.overflow
                /\ AddLimbs(GasLeft, gas.charged, 1, 0) = gas.initial \o <<0>>

\* Two charges returned and a third trapped.
C6_Witness ==
    /\ phase = "instantiated"
    /\ gas.status = "trapped"
    /\ gas.calls = 3
    /\ gas.traps = 1
    /\ gas.charged # Zero
    /\ GasLeft = U64Max

\* C7 as stated: after any calls of the gas function and for every initial
\* value, the gas global holds u64::MAX if and only if some charge trapped.
C7_SentinelIffTrapped ==
    (phase = "instantiated" /\ gas.status # "running") =>
        ((GasLeft = U64Max) <=> (gas.traps > 0))

\* C7 amended: right after a charge trapped the gas global holds u64::MAX;
\* and when the host's initial value is below u64::MAX, the global holds
\* u64::MAX after a call only if some charge has trapped.
C7_SentinelAfterTrap ==
    (phase = "instantiated" /\ gas.status # "running") =>
        /\ gas.status = "trapped" => GasLeft = U64Max
        /\ (gas.initial # U64Max /\ GasLeft = U64Max) => gas.traps > 0

\* A charge trapped in an instance whose initial gas was below u64::MAX.
C7_Witness ==
    /\ phase = "instantiated"
    /\ gas.status = "trapped"
    /\ gas.initial # U64Max
    /\ gas.initial # Zero
    /\ GasLeft = U64Max


(***************************************************************************)
(* determine_metered_blocks one instruction at a time: the Counter after   *)
(* the function's control block is begun, after each turn of the loop over *)
(* the instructions, and the sorted blocks returned.                       *)
(***************************************************************************)
\* determine_metered_blocks up to the loop: Counter::new, the implicit
\* function block and the locals initialization cost.
BeginCounter(locals_init_cost) ==
    IF ~IsSome(locals_init_cost) THEN Err(NewCounter)
    ELSE increment(begin_control_block(NewCounter, 0, FALSE), locals_init_cost[1])

\* One turn of the loop of determine_metered_blocks.
CountTurn(c, instruction, cost, cursor) ==
    IF ~IsSome(cost) THEN Err(c) ELSE MeterInstruction(c, instruction, cost[1], cursor)

CountBegin ==
    /\ phase = "input"
    /\ counter' = [cursor |-> 0,
                   r |-> BeginCounter(CheckedMul32(call_per_local_cost(rules),
                                                   func.locals_count)),
                   blocks |-> <<>>]
    /\ phase' = IF counter'.r.ok THEN "counting" ELSE "uncounted"
    /\ UNCHANGED <<limiter, rules, func, meter, run, module, backend, result, gas>>

CountInstruction ==
    /\ phase = "counting"
    /\ counter.cursor < Len(func.instructions)
    /\ counter' = [counter EXCEPT
            !.cursor = @ + 1,
            !.r = CountTurn(counter.r.c, func.instructions[counter.cursor + 1],
                            instruction_cost(rules, func.instructions[counter.cursor + 1]),
                            counter.cursor)]
    /\ phase' = IF counter'.r.ok THEN "counting" ELSE "uncounted"
    /\ UNCHANGED <<limiter, rules, func, meter, run, module, backend, result, gas>>

\* The loop is over: the finalized blocks are sorted and returned.
CountFinish ==
    /\ phase = "counting"
    /\ counter.cursor = Len(func.instructions)
    /\ counter' = [counter EXCEPT !.blocks = SortedBlocks(counter.r).blocks]
    /\ phase' = "counted"
    /\ UNCHANGED <<limiter, rules, func, meter, run, module, backend, result, gas>>

NextCount ==
    \/ CountBegin
    \/ CountInstruction
    \/ CountFinish

SpecCount == InitMeter /\ [][NextCount]_vars

(***************************************************************************)
(* Properties of the analysis, turn by turn.                               *)
(***************************************************************************)
RECURSIVE SumCosts(_, _)
\* The sum of the costs of blocks[i..].
SumCosts(blocks, i) ==
    IF i > Len(blocks) THEN Zero
    ELSE WrappingAdd(blocks[i].cost, SumCosts(blocks, i + 1))

\* All the cost a Counter holds: its finalized blocks and the active metered
\* block of every control block on its stack.
HeldCost(c) ==
    WrappingAdd(SumCosts(c.finalized_blocks, 1),
                SumCosts([i \in 1..Len(c.stack) |-> c.stack[i].active_metered_block], 1))

\* The instruction the turn just taken was about, and its cost by the rules.
TurnInstruction == func.instructions[counter.cursor + 1]
TurnCost == instruction_cost(rules, TurnInstruction)[1]

\* The turn in hand begins and ends with a Counter.
TakesTurn == phase = "counting" /\ phase' = "counting" /\ counter'.cursor = counter.cursor + 1

\* The active metered block of the control block that was current before the
\* turn has the instruction's cost added.
AddedToActive ==
    /\ Len(counter'.r.c.stack) >= Len(counter.r.c.stack)
    /\ counter'.r.c.stack[Len(counter.r.c.stack)].active_metered_block =
            [active_metered_block(counter.r.c) EXCEPT !.cost = WrappingAdd(@, TurnCost)]

\* The Counter holds the instruction's cost more than before the turn.
HoldsCostMore == HeldCost(counter'.r.c) = WrappingAdd(HeldCost(counter.r.c), TurnCost)

\* C19 as stated: every instruction, of any kind, has its cost added: the
\* Counter holds that much more after the turn, and unless the turn finalized
\* the active metered block it is that block which holds it.
C19_EveryInstructionAdds ==
    [][TakesTurn =>
        /\ HoldsCostMore
        /\ TurnInstruction.op \notin {"Br", "BrIf", "BrTable", "Return", "End", "Else"}
                => AddedToActive]_vars

\* C19 amended: the cost of every instruction but end and else is added to
\* the active metered block of the current control block (a branch or return
\* then finalizes that block); the cost of end and of else is asked of the
\* rules but added nowhere.
C19_AllButEndAndElseAdd ==
    [][TakesTurn =>
        IF TurnInstruction.op \in {"End", "Else"}
        THEN HeldCost(counter'.r.c) = HeldCost(counter.r.c)
        ELSE /\ HoldsCostMore
             /\ TurnInstruction.op \notin {"Br", "BrIf", "BrTable", "Return"}
                    => AddedToActive]_vars

\* Under the weighted rules the analysis is past an if, its else, a branch and
\* an end, with cost both in finalized blocks and in active ones.
C19_Witness ==
    /\ phase = "counting"
    /\ rules = WeightedRules
    /\ \E i, j, k \in 1..counter.cursor :
        /\ i < j /\ j < k
        /\ func.instructions[i].op = "If"
        /\ func.instructions[j].op = "Else"
        /\ func.instructions[k].op = "End"
    /\ \E i \in 1..counter.cursor : func.instructions[i].op \in {"Br", "BrIf"}
    /\ counter.r.c.finalized_blocks # <<>>
    /\ counter.r.c.stack # <<>>
    /\ active_metered_block(counter.r.c).cost # Zero


RECURSIVE ChargedBefore(_)
\* The sum of the costs of the instructions before cursor that are neither
\* end nor else, by the rules.
ChargedBefore(cursor) ==
    IF cursor = 0 THEN Zero
    ELSE WrappingAdd(
            IF func.instructions[cursor].op \in {"End", "Else"} THEN Zero
            ELSE instruction_cost(rules, func.instructions[cursor])[1],
            ChargedBefore(cursor - 1))

\* C20: at every turn of the analysis the Counter holds, in its finalized
\* blocks and its active ones, the locals initialization cost plus the costs
\* charged for the instructions seen so far; and the blocks returned sum up
\* to the locals initialization cost plus the costs charged for the whole body.
C20_NoCostLost ==
    /\ phase = "counting" =>
            HeldCost(counter.r.c) = WrappingAdd(LocalsInitCost, ChargedBefore(counter.cursor))
    /\ phase = "counted" =>
            SumCosts(counter.blocks, 1) =
                WrappingAdd(LocalsInitCost, ChargedBefore(Len(func.instructions)))

\* The blocks are returned for a body in which a block was merged into the
\* block of its parent, control blocks were popped, and an else closed a
\* block of no cost, which was discarded.
C20_Witness ==
    /\ phase = "counted"
    /\ rules = WeightedRules
    /\ counter.blocks # <<>>
    /\ \E i \in 1..Len(func.instructions) : func.instructions[i].op = "Block"
    /\ \E i \in 1..(Len(func.instructions) - 1) :
        /\ func.instructions[i].op = "If"
        /\ func.instructions[i + 1].op = "Else"


(***************************************************************************)
(* The end of a control block and the metered block of the code after it.  *)
(***************************************************************************)
RECURSIVE FramesBefore(_, _)
\* The control frames open before the instruction at position pos of a
\* body, the function's frame first: "func", "Block", "Loop", "If" or "Else"
\* (an if whose else was met).
FramesBefore(instructions, pos) ==
    IF pos = 0 THEN <<"func">>
    ELSE Only({FramesAfter(frames, instructions[pos]) :
                frames \in {FramesBefore(instructions, pos - 1)}})

\* The instruction at position k lies in the control block that the end at
\* position end_pos closes.
InClosedBlock(instructions, k, end_pos) ==
    /\ k < end_pos
    /\ \A j \in k..end_pos :
        Len(FramesBefore(instructions, j)) >= Len(FramesBefore(instructions, end_pos))

\* The instruction at position k is a br, br_if, br_table or return with a
\* target that is not a loop and has a stack index below closed_index.
BranchesBelow(instructions, k, closed_index) ==
    LET frames == FramesBefore(instructions, k)
    IN  \/ instructions[k + 1].op = "Return"
        \/ /\ instructions[k + 1].op \in {"Br", "BrIf", "BrTable"}
           /\ \E i \in 1..Len(instructions[k + 1].arg) :
                /\ Len(frames) - 1 - instructions[k + 1].arg[i] < closed_index
                /\ frames[Len(frames) - instructions[k + 1].arg[i]] # "Loop"

\* Some branch inside the block closed by the end at end_pos leaves it for a
\* frame below it that is not a loop.
MayBranchOut(instructions, end_pos) ==
    \E k \in 0..(end_pos - 1) :
        /\ InClosedBlock(instructions, k, end_pos)
        /\ BranchesBelow(instructions, k, Len(FramesBefore(instructions, end_pos)) - 1)

\* The turn in hand is about an end that closes a block other than the
\* function's.
ClosesBlock == TakesTurn /\ TurnInstruction.op = "End" /\ Len(counter.r.c.stack) > 1

\* C21: at the end of a control block the code that follows goes on in the
\* active metered block of the enclosing frame (same start_pos as before the
\* end) if and only if no branch inside the closed block targets a frame
\* below it that is not a loop; if there is one, the enclosing frame begins
\* a new metered block of no cost right after the end.
C21_MergeIffNoBranchOut ==
    [][ClosesBlock =>
        /\ Len(counter'.r.c.stack) = Len(counter.r.c.stack) - 1
        /\ IF MayBranchOut(func.instructions, counter.cursor)
           THEN active_metered_block(counter'.r.c) = MeteredBlock(counter.cursor + 1, Zero)
           ELSE active_metered_block(counter'.r.c).start_pos =
                    counter.r.c.stack[Len(counter.r.c.stack) - 1].active_metered_block.start_pos]_vars

\* The end of a block, at position end_pos, has been passed that holds a
\* branch and that (leaves TRUE) some branch, (leaves FALSE) no branch leaves
\* for a frame below that is not a loop.
PassedEnd(end_pos, leaves) ==
    /\ func.instructions[end_pos + 1].op = "End"
    /\ Len(FramesBefore(func.instructions, end_pos)) > 1
    /\ MayBranchOut(func.instructions, end_pos) = leaves
    /\ \E k \in 0..(end_pos - 1) :
        /\ InClosedBlock(func.instructions, k, end_pos)
        /\ func.instructions[k + 1].op \in {"Br", "BrIf", "BrTable"}

\* The analysis has passed the end of a block that a branch leaves for a
\* frame below and the end of a block that holds only branches to itself or
\* to a loop; the latter was the last turn, and the metered block of the
\* enclosing frame goes on from before the end.
C21_Witness ==
    /\ phase = "counting"
    /\ counter.cursor > 0
    /\ counter.r.c.stack # <<>>
    /\ PassedEnd(counter.cursor - 1, FALSE)
    /\ active_metered_block(counter.r.c).start_pos < counter.cursor
    /\ \E e \in 0..(counter.cursor - 2) : PassedEnd(e, TRUE)


(***************************************************************************)
(* The metered blocks that block, if, loop and else begin.                 *)
(***************************************************************************)
\* The turn in hand opened a control frame whose active metered block is
\* block.
Opens(block, is_loop) ==
    /\ Len(counter'.r.c.stack) = Len(counter.r.c.stack) + 1
    /\ active_metered_block(counter'.r.c) = block
    /\ counter'.r.c.stack[Len(counter'.r.c.stack)].is_loop = is_loop

\* The body is straight-line code in nested blocks.
StraightLine ==
    \A i \in 1..Len(func.instructions) :
        func.instructions[i].op \in {"Block", "End", "GetGlobal"}

\* Position i + 1 is the first instruction of an arm or of a loop body, and
\* that instruction is charged a cost.
ArmAfter(i) ==
    /\ func.instructions[i + 1].op \in {"If", "Loop", "Else"}
    /\ func.instructions[i + 2].op \notin {"End", "Else"}
    /\ instruction_cost(rules, func.instructions[i + 2])[1] # Zero

\* C22: block opens a frame whose active metered block starts where its
\* parent's does and holds no cost yet; if and loop at cursor i open a frame
\* whose metered block starts at i + 1, and else at i begins a block at
\* i + 1.  In the blocks returned, straight-line code in nested blocks has
\* one charge, at position 0, and every arm and loop body whose first
\* instruction costs something has a charge at its first instruction.
C22_BlocksBegun ==
    /\ [][TakesTurn =>
            /\ TurnInstruction.op = "Block" =>
                    Opens(MeteredBlock(active_metered_block(counter.r.c).start_pos, Zero),
                          FALSE)
            /\ TurnInstruction.op = "If" =>
                    Opens(MeteredBlock(counter.cursor + 1, Zero), FALSE)
            /\ TurnInstruction.op = "Loop" =>
                    Opens(MeteredBlock(counter.cursor + 1, Zero), TRUE)
            /\ TurnInstruction.op = "Else" =>
                    /\ Len(counter'.r.c.stack) = Len(counter.r.c.stack)
                    /\ active_metered_block(counter'.r.c) =
                            MeteredBlock(counter.cursor + 1, Zero)]_vars
    /\ [](phase = "counted" =>
            /\ StraightLine =>
                    \A b \in 1..Len(counter.blocks) :
                        b = 1 /\ counter.blocks[b].start_pos = 0
            /\ \A i \in 0..(Len(func.instructions) - 2) :
                    ArmAfter(i) =>
                        \E b \in 1..Len(counter.blocks) :
                            counter.blocks[b].start_pos = i + 1)

\* The blocks are returned for a body with an if whose two arms are each
\* charged at their first instruction, and for no other position but 0.
C22_Witness ==
    /\ phase = "counted"
    /\ \E i, j \in 0..(Len(func.instructions) - 2) :
        /\ func.instructions[i + 1].op = "If" /\ ArmAfter(i)
        /\ func.instructions[j + 1].op = "Else" /\ ArmAfter(j)
        /\ {counter.blocks[b].start_pos : b \in 1..Len(counter.blocks)} = {0, i + 1, j + 1}


(***************************************************************************)
(* When gas_metering::inject fails.                                        *)
(***************************************************************************)
RECURSIVE WellNested(_, _, _)
\* code[i..] is structurally well formed inside depth open control frames,
\* the function's own among them: every end closes a frame, the last
\* instruction closes the function's, and every label names an open frame.
WellNested(code, i, depth) ==
    IF i > Len(code) THEN depth = 0
    ELSE IF depth = 0 THEN FALSE
    ELSE CASE code[i].op \in {"Block", "Loop", "If"} -> WellNested(code, i + 1, depth + 1)
           [] code[i].op = "End" -> WellNested(code, i + 1, depth - 1)
           [] code[i].op \in {"Br", "BrIf", "BrTable"} ->
                /\ \A k \in 1..Len(code[i].arg) : code[i].arg[k] < depth
                /\ WellNested(code, i + 1, depth)
           [] OTHER -> WellNested(code, i + 1, depth)

\* A module whose bodies are well nested and declare at most u32::MAX locals.
WellFormed(m) ==
    \A f \in 1..Len(m.functions) :
        /\ WellNested(m.functions[f].code, 1, 1)
        /\ IsSome(LocalsCount(m.functions[f].locals, 1, Some(Zero)))

\* The rules give no cost for some instruction of some body of the module.
HasForbidden(m) ==
    \E f \in 1..Len(m.functions) : \E i \in 1..Len(m.functions[f].code) :
        ~IsSome(instruction_cost(rules, m.functions[f].code[i]))

\* call_per_local_cost times the number of locals of some body is above
\* u32::MAX.
SurchargeOverflows32(m) ==
    \E f \in 1..Len(m.functions) :
        ~IsSome(CheckedMul32(call_per_local_cost(rules),
                    unwrap_or(LocalsCount(m.functions[f].locals, 1, Some(Zero)), Zero)))


(***************************************************************************)
(* The stack limiter run on a module.                                      *)
(*                                                                         *)
(* The modules have the types () -> () and (i32, i32) -> i32, up to        *)
(* MaxImports imports (functions of type () -> () and immutable i32        *)
(* globals), a global section with one immutable global or none, up to     *)
(* MaxFuncs functions, an export section that names one function twice     *)
(* and, when the module has a global, global 0, two element segments and   *)
(* a start function or none.  The bodies call functions with and without   *)
(* parameters, imported and defined, read a global, call twice, or call a  *)
(* function with too few values on the stack (not valid: the analyzer      *)
(* fails).  The limit is 1024 or the number thunk.rs uses as placeholder.  *)
(***************************************************************************)
LimiterTypes == <<[params |-> <<>>, results |-> <<>>],
                  [params |-> <<"I32", "I32">>, results |-> <<"I32">>]>>

LimiterImport(kind) == [kind |-> kind, type_ref |-> 0, mutable |-> FALSE]

LimiterImports ==
    UNION {[1..n -> {LimiterImport("Function"), LimiterImport("Global")}] : n \in 0..MaxImports}

LimiterFuncs(space) ==
    {[type_ref |-> 0, locals |-> <<>>, code |-> <<Call(k), End>>] : k \in 0..(space - 1)}
        \cup {[type_ref |-> 1, locals |-> <<Num(1), Num(2)>>,
               code |-> <<GetLocal(0), GetLocal(1), Call(space - 1), End>>],
              [type_ref |-> 1, locals |-> <<Num(1)>>,
               code |-> <<GetLocal(0), GetLocal(1), I32Add, End>>],
              [type_ref |-> 0, locals |-> <<>>,
               code |-> <<GetGlobal(0), Drop, Call(0), Call(space - 1), End>>]}

LimiterSections(imports, has_globals, start) ==
    <<"Type">> \o (IF imports = <<>> THEN <<>> ELSE <<"Import">>) \o <<"Function", "Table">>
        \o (IF has_globals THEN <<"Global">> ELSE <<>>) \o <<"Export">>
        \o (IF start = <<>> THEN <<>> ELSE <<"Start">>) \o <<"Element", "Code">>

LimiterModule(imports, functions, has_globals, space, x, start) ==
    [types |-> LimiterTypes,
     imports |-> imports,
     sections |-> LimiterSections(imports, has_globals, start),
     functions |-> functions,
     globals |-> IF has_globals THEN <<[value_type |-> "I32", mutable |-> FALSE, init |-> Zero]>>
                 ELSE <<>>,
     exports |-> <<[field |-> "main", kind |-> "Function", index |-> x],
                   [field |-> "again", kind |-> "Function", index |-> x]>>
                 \o (IF has_globals \/ CountKind(imports, "Global") > 0
                        THEN <<[field |-> "glob", kind |-> "Global", index |-> 0]>>
                     ELSE <<>>),
     elements |-> <<<<x, (x + 1) % space>>, <<0>>>>,
     start |-> start]

LimiterModulesWith(imports, n, space) ==
    {LimiterModule(imports, functions, has_globals, space, x, start) :
        functions \in [1..n -> LimiterFuncs(space)], has_globals \in BOOLEAN,
        x \in 0..(space - 1), start \in {None, Some(space - 1)}}

LimiterModules ==
    UNION {LimiterModulesWith(imports, n, CountKind(imports, "Function") + n) :
            imports \in LimiterImports, n \in 1..MaxFuncs}

Limits == {Num(1024), Num(CALLEE_STACK_COST_PLACEHOLDER)}

\* A run of the stack limiter that has not begun: the limit it is given.
LimiterWith(stack_limit) == [status |-> "idle", stack_limit |-> stack_limit]

InitLimiter ==
    /\ phase = "input"
    /\ module \in LimiterModules
    /\ limiter \in {LimiterWith(stack_limit) : stack_limit \in Limits}
    /\ rules = DefaultRules
    /\ backend = NoBackend
    /\ result = NoResult
    /\ func = NoFunc
    /\ meter = NoMeter
    /\ run = NoRun
    /\ gas = NoGas
    /\ counter = NoCounter

\* The Context of a run that failed before it had one.
NoContext ==
    [func_imports |-> 0, func_types |-> <<>>, stack_height_global_idx |-> 0,
     func_stack_costs |-> <<>>, stack_limit |-> Zero]

\* The orders the replacement map may give its thunks in; one (unused)
\* order when inject fails before it has the map.
OrdersOf(m, stack_limit) ==
    UNION {IF ~before.ok THEN {<<>>}
           ELSE UNION {IF collected.ok THEN ThunkOrders(DOMAIN collected.c) ELSE {<<>>} :
                        collected \in {ReplacementMap(before.c.ctx, before.c.module)}} :
            before \in {BeforeThunks(m, stack_limit)}}

\* inject_stack_limiter is called on the module with a limit.
LimiterInject ==
    /\ phase = "input"
    /\ limiter.status = "idle"
    /\ \E order \in OrdersOf(module, limiter.stack_limit) :
        \E output \in {inject_stack_limiter(module, limiter.stack_limit, order)} :
        \E before \in {BeforeThunks(module, limiter.stack_limit)} :
            limiter' = [status |-> IF output.ok THEN "done" ELSE "failed",
                        stack_limit |-> limiter.stack_limit,
                        order |-> order,
                        ctx |-> IF before.ok THEN before.c.ctx ELSE NoContext,
                        output |-> output]
    /\ phase' = "limited"
    /\ UNCHANGED <<counter, rules, module, backend, result, func, meter, run, gas>>

NextLimiter == LimiterInject

SpecLimiter == InitLimiter /\ [][NextLimiter]_vars


(***************************************************************************)
(* The global the inserted instructions count the stack height in.         *)
(***************************************************************************)
\* How many global.get and global.set of global g a body holds.
GlobalUses(code, g) ==
    Cardinality({i \in 1..Len(code) :
        code[i].op \in {"GetGlobal", "SetGlobal"} /\ code[i].arg = <<g>>})

\* The index, in the global index space of the output (imported globals
\* first), of the global inject_stack_limiter appended.
NewGlobalIndex == globals_space(limiter.output.c) - 1

\* The body function k of the output was made from: the k-th body of the
\* input, nothing for a thunk.
InputCode(k) == IF k <= Len(module.functions) THEN module.functions[k].code ELSE <<>>

\* C12: after a successful inject_stack_limiter the last global of the global
\* section is a mutable i32 global initialised to 0, the index recorded in
\* the Context is the index of that global in the global index space, and
\* the global.get and global.set instructions added to the bodies and put in
\* the thunks all name that global: the uses of any other global are the
\* uses the input body had.
C12_EmittedUseStackHeightGlobal ==
    limiter.status = "done" =>
        /\ limiter.output.c.globals[Len(limiter.output.c.globals)] = global_entry
        /\ limiter.ctx.stack_height_global_idx = NewGlobalIndex
        /\ \A k \in 1..Len(limiter.output.c.functions) :
            \A g \in 0..(NewGlobalIndex + 1) :
                g # NewGlobalIndex =>
                    GlobalUses(limiter.output.c.functions[k].code, g)
                        = GlobalUses(InputCode(k), g)


(***************************************************************************)
(* The call sites after inject_stack_limiter.                              *)
(***************************************************************************)
\* cost(f): the stack cost the Context holds for a function, 0 when it holds
\* none.
CostOf(f) ==
    IF f < Len(limiter.ctx.func_stack_costs) THEN limiter.ctx.func_stack_costs[f + 1] ELSE Zero

\* A call of a function whose stack cost is above 0.
IsCharged(instruction) == instruction.op = "Call" /\ CostOf(instruction.arg[1]) # Zero

\* How many of the instructions before position i are such calls.
InstrumentedBefore(code, i) == Cardinality({j \in 1..(i - 1) : IsCharged(code[j])})

\* Where instruction i of the old body is expected in the new one.
NewPos(code, i) == i + 14 * InstrumentedBefore(code, i)

\* C13: after a successful inject_stack_limiter imported functions have
\* cost 0, and in every body of the input each call of a function of cost
\* above 0 has become the fifteen instructions preamble, call, postamble
\* with both cost constants cost(f), the compared constant the limit and
\* the call still to f, every other instruction (calls of zero-cost
\* functions included) is copied in order, and the body is longer by 14
\* instructions per such call.
C13_CallsInstrumented ==
    limiter.status = "done" =>
        /\ \A f \in 0..(import_count(module) - 1) : CostOf(f) = Zero
        /\ \A k \in 1..Len(module.functions) :
            LET old == module.functions[k].code
                new == limiter.output.c.functions[k].code
                H == limiter.ctx.stack_height_global_idx
            IN  /\ Len(new) = Len(old) + 14 * InstrumentedBefore(old, Len(old) + 1)
                /\ \A i \in 1..Len(old) :
                    IF IsCharged(old[i])
                        THEN SubSeq(new, NewPos(old, i), NewPos(old, i) + 14)
                                = <<GetGlobal(H), I32Const(CostOf(old[i].arg[1])), I32Add,
                                    SetGlobal(H), GetGlobal(H), I32Const(limiter.stack_limit),
                                    I32GtU, If, Unreachable, End, old[i],
                                    GetGlobal(H), I32Const(CostOf(old[i].arg[1])), I32Sub,
                                    SetGlobal(H)>>
                    ELSE new[NewPos(old, i)] = old[i]

\* C13 witness: a successful run on a module one body of which calls an
\* imported function (cost 0, left alone) and then a defined function
\* (instrumented), after two other instructions.
C13_Witness ==
    /\ limiter.status = "done"
    /\ \E k \in 1..Len(module.functions) :
        /\ Len(module.functions[k].code) = 5
        /\ module.functions[k].code[3].op = "Call"
        /\ ~IsCharged(module.functions[k].code[3])
        /\ IsCharged(module.functions[k].code[4])
        /\ Len(limiter.output.c.functions[k].code) = 19


(***************************************************************************)
(* The thunks of inject_stack_limiter.                                     *)
(***************************************************************************)
\* The function indices the input refers to from its exports of kind
\* function, its element segments and its start section.
Referenced ==
    {module.exports[i].index : i \in {j \in 1..Len(module.exports) :
                                            module.exports[j].kind = "Function"}}
        \cup UNION {{module.elements[i][j] : j \in 1..Len(module.elements[i])} :
                        i \in 1..Len(module.elements)}
        \cup {module.start[i] : i \in 1..Len(module.start)}

\* The functions that must get a thunk: referenced and of cost above 0.
Thunked == {f \in Referenced : CostOf(f) # Zero}

\* The signature of function f of the input: imported functions first.
SignatureOf(f) == module.types[FuncTypeRefs(module)[f + 1] + 1]

\* Output function t is a thunk of f: it has the signature of f, no locals
\* of its own, and its body pushes the parameters in order, runs preamble,
\* call of f and postamble on the recorded global, and ends.
IsThunkOf(t, f) ==
    LET thunk == limiter.output.c.functions[t - import_count(module) + 1]
        n == Len(SignatureOf(f).params)
        H == limiter.ctx.stack_height_global_idx
    IN  /\ limiter.output.c.types[thunk.type_ref + 1] = SignatureOf(f)
        /\ thunk.locals = <<>>
        /\ Len(thunk.code) = n + 16
        /\ \A i \in 1..n : thunk.code[i] = GetLocal(i - 1)
        /\ [i \in 1..16 |-> thunk.code[n + i].op]
            = <<"GetGlobal", "I32Const", "I32Add", "SetGlobal", "GetGlobal", "I32Const",
                "I32GtU", "If", "Unreachable", "End", "Call", "GetGlobal", "I32Const",
                "I32Sub", "SetGlobal", "End">>
        /\ \A i \in {1, 4, 5, 12, 15} : thunk.code[n + i].arg = <<H>>
        /\ thunk.code[n + 11] = Call(f)

\* The indices of the functions inject_stack_limiter added.
AddedFuncs == functions_space(module)..(functions_space(limiter.output.c) - 1)

\* C14: after a successful inject_stack_limiter the functions added are
\* thunks, one for each function of cost above 0 that an export of kind
\* function, an element segment or the start section names, however often:
\* every such function has exactly one thunk, every added function is the
\* thunk of exactly one such function, and no function of cost 0 has one.
C14_OneThunkPerReferenced ==
    limiter.status = "done" =>
        /\ Cardinality(AddedFuncs) = Cardinality(Thunked)
        /\ \A f \in Thunked : Cardinality({t \in AddedFuncs : IsThunkOf(t, f)}) = 1
        /\ \A t \in AddedFuncs : Cardinality({f \in Thunked : IsThunkOf(t, f)}) = 1
        /\ \A t \in AddedFuncs : \A f \in 0..(functions_space(module) - 1) :
                IsThunkOf(t, f) => CostOf(f) # Zero

\* C14 witness: a successful run on a module that names a function with
\* two parameters and a result three times or more, names an imported
\* function too, and got two thunks.
C14_Witness ==
    /\ limiter.status = "done"
    /\ Cardinality(AddedFuncs) = 2
    /\ \E f \in Thunked : Len(SignatureOf(f).params) = 2 /\ module.exports[1].index = f
    /\ \E f \in Referenced : f < import_count(module)


(***************************************************************************)
(* The references to functions after inject_stack_limiter.                 *)
(***************************************************************************)
\* What a reference to function f of the input must have become: the index
\* of the thunk of f when f gets one, f otherwise.
Redirected(old_ref, new_ref) ==
    IF old_ref \in Thunked THEN new_ref \in AddedFuncs /\ IsThunkOf(new_ref, old_ref)
    ELSE new_ref = old_ref

\* The callees of the call instructions of a body, in order.
CallTargets(code) ==
    [i \in 1..Len(SelectSeq(code, LAMBDA ins : ins.op = "Call")) |->
        SelectSeq(code, LAMBDA ins : ins.op = "Call")[i].arg[1]]

\* C15: after a successful inject_stack_limiter every export of kind
\* function, every element segment member and the start index that named a
\* function with a thunk names that thunk, the ones that named a function
\* of cost 0 and the exports of other kinds are as they were, and the calls
\* in the bodies of the input still have their callees, none of which is a
\* thunk.
C15_ReferencesRedirected ==
    limiter.status = "done" =>
        LET out == limiter.output.c
        IN  /\ Len(out.exports) = Len(module.exports)
            /\ \A i \in 1..Len(module.exports) :
                IF module.exports[i].kind = "Function"
                    THEN /\ out.exports[i].field = module.exports[i].field
                         /\ out.exports[i].kind = "Function"
                         /\ Redirected(module.exports[i].index, out.exports[i].index)
                ELSE out.exports[i] = module.exports[i]
            /\ Len(out.elements) = Len(module.elements)
            /\ \A i \in 1..Len(module.elements) :
                /\ Len(out.elements[i]) = Len(module.elements[i])
                /\ \A j \in 1..Len(module.elements[i]) :
                        Redirected(module.elements[i][j], out.elements[i][j])
            /\ Len(out.start) = Len(module.start)
            /\ \A i \in 1..Len(module.start) : Redirected(module.start[i], out.start[i])
            /\ \A k \in 1..Len(module.functions) :
                /\ CallTargets(out.functions[k].code) = CallTargets(module.functions[k].code)
                /\ \A i \in 1..Len(out.functions[k].code) :
                        out.functions[k].code[i].op = "Call"
                            => out.functions[k].code[i].arg[1] \notin AddedFuncs

\* C15 witness: a successful run on a module whose function 0 gets a thunk
\* while the export of global 0 stays, whose start function gets another
\* thunk, and one body of which calls a function that has a thunk.
C15_Witness ==
    /\ limiter.status = "done"
    /\ 0 \in Thunked
    /\ \E i \in 1..Len(module.exports) :
        /\ module.exports[i].kind = "Global"
        /\ limiter.output.c.exports[i].index = 0
    /\ module.start # <<>>
    /\ module.start[1] \in Thunked \ {0}
    /\ limiter.output.c.start[1] \in AddedFuncs
    /\ \E k \in 1..Len(module.functions) :
        \E i \in 1..Len(module.functions[k].code) :
            /\ module.functions[k].code[i].op = "Call"
            /\ module.functions[k].code[i].arg[1] \in Thunked


(***************************************************************************)
(* The validity of the module inject_stack_limiter returns.                *)
(***************************************************************************)
\* C18: when inject_stack_limiter succeeds on a valid module, the module it
\* returns is valid.
C18_LimitedModuleValid ==
    (limiter.status = "done" /\ validate(module)) => validate(limiter.output.c)


(***************************************************************************)
(* Execution of a module made by inject_stack_limiter.                     *)
(*                                                                         *)
(* The host calls an exported function once.  run is [status, frames,      *)
(* stack, globals]: frames are the active calls, each [func, pc, open]     *)
(* with pc counting from 0 and open the number of blocks entered and not   *)
(* left; stack holds the i32 values; globals holds the value of every      *)
(* global of the global index space.  A call of an imported function       *)
(* returns at once.  The depth of the calls is capped at MaxFrames.        *)
(* The modules have functions of type () -> () with no local, one local    *)
(* or 2^31 locals that return at once or call a function, and at most one  *)
(* imported function; the limit is 12 or u32::MAX.                         *)
(***************************************************************************)
MaxFrames == 6

Pow31 == <<0, 0, 0, 128, 0, 0, 0, 0>>

CallFuncs(space) ==
    {[type_ref |-> 0, locals |-> locals, code |-> code] :
        locals \in {<<>>, <<Num(1)>>, <<Pow31>>},
        code \in {<<Call(k), End>> : k \in 0..(space - 1)} \cup {<<End>>}}

CallModulesWith(imports, n, space) ==
    {LimiterModule(imports, functions, FALSE, space, x, None) :
        functions \in [1..n -> CallFuncs(space)], x \in (space - n)..(space - 1)}

CallModules ==
    UNION {CallModulesWith(imports, n, Len(imports) + n) :
            imports \in {<<>>, <<LimiterImport("Function")>>}, n \in 1..MaxFuncs}

CallLimits == {Num(12), U32Max}

NoCall == [status |-> "idle", frames |-> <<>>, stack |-> <<>>, globals |-> <<>>]

InitCall ==
    /\ phase = "input"
    /\ module \in CallModules
    /\ limiter \in {LimiterWith(stack_limit) : stack_limit \in CallLimits}
    /\ run = NoCall
    /\ rules = DefaultRules
    /\ backend = NoBackend
    /\ result = NoResult
    /\ func = NoFunc
    /\ meter = NoMeter
    /\ gas = NoGas
    /\ counter = NoCounter

\* The body of a defined function of the output.
LimitedCode(f) == limiter.output.c.functions[f - import_count(module) + 1].code

TopCall == run.frames[Len(run.frames)]

\* The instruction the execution is at.
CallAt == LimitedCode(TopCall.func)[TopCall.pc + 1]

CallRuns(ops) == phase = "limited" /\ run.status = "running" /\ CallAt.op \in ops

\* The top frame moved on by one instruction.
Stepped(frames) == [frames EXCEPT ![Len(frames)].pc = @ + 1]

CallUnchanged == UNCHANGED <<counter, limiter, phase, rules, module, backend, result, func, meter, gas>>

\* The host calls an exported function of the module; every global has its
\* initial value 0.
LimEnter ==
    /\ phase = "limited"
    /\ limiter.status = "done"
    /\ run.status = "idle"
    /\ \E i \in 1..Len(limiter.output.c.exports) :
        /\ limiter.output.c.exports[i].kind = "Function"
        /\ limiter.output.c.exports[i].index >= import_count(module)
        /\ run' = [status |-> "running",
                   frames |-> <<[func |-> limiter.output.c.exports[i].index, pc |-> 0,
                                 open |-> 0]>>,
                   stack |-> <<>>,
                   globals |-> [g \in 1..globals_space(limiter.output.c) |-> Zero]]
    /\ CallUnchanged

LimGetGlobal ==
    /\ CallRuns({"GetGlobal"})
    /\ run' = [run EXCEPT !.frames = Stepped(@),
                          !.stack = Append(@, run.globals[CallAt.arg[1] + 1])]
    /\ CallUnchanged

LimSetGlobal ==
    /\ CallRuns({"SetGlobal"})
    /\ run' = [run EXCEPT !.frames = Stepped(@),
                          !.stack = Pop(@, 1),
                          !.globals[CallAt.arg[1] + 1] = Top(run.stack)]
    /\ CallUnchanged

LimI32Const ==
    /\ CallRuns({"I32Const"})
    /\ run' = [run EXCEPT !.frames = Stepped(@), !.stack = Append(@, CallAt.arg)]
    /\ CallUnchanged

\* i32.add: the sum modulo 2^32
LimI32Add ==
    /\ CallRuns({"I32Add"})
    /\ run' = [run EXCEPT !.frames = Stepped(@),
                          !.stack = Append(Pop(@, 2),
                                           Wrap32(WrappingAdd(Below(run.stack), Top(run.stack))))]
    /\ CallUnchanged

\* i32.sub: the difference modulo 2^32
LimI32Sub ==
    /\ CallRuns({"I32Sub"})
    /\ run' = [run EXCEPT !.frames = Stepped(@),
                          !.stack = Append(Pop(@, 2),
                                           Wrap32(WrappingSub(Below(run.stack), Top(run.stack))))]
    /\ CallUnchanged

\* i32.gt_u: unsigned comparison
LimI32GtU ==
    /\ CallRuns({"I32GtU"})
    /\ run' = [run EXCEPT !.frames = Stepped(@),
                          !.stack = Append(Pop(@, 2),
                                           IF LtU(Top(run.stack), Below(run.stack))
                                               THEN Num(1) ELSE Zero)]
    /\ CallUnchanged

\* if without else: the block is entered when the condition is not 0, and
\* skipped to after its end otherwise.
LimIf ==
    /\ CallRuns({"If"})
    /\ run' = [run EXCEPT
                !.stack = Pop(@, 1),
                !.frames[Len(run.frames)] =
                    IF Top(run.stack) # Zero THEN [@ EXCEPT !.pc = @ + 1, !.open = @ + 1]
                    ELSE [@ EXCEPT !.pc = EndOf(LimitedCode(TopCall.func), TopCall.pc) + 1]]
    /\ CallUnchanged

LimUnreachable ==
    /\ CallRuns({"Unreachable"})
    /\ run' = [run EXCEPT !.status = "trapped"]
    /\ CallUnchanged

\* call of a defined function: its body is entered.
LimCall ==
    /\ CallRuns({"Call"})
    /\ CallAt.arg[1] >= import_count(module)
    /\ Len(run.frames) < MaxFrames
    /\ run' = [run EXCEPT !.frames = Append(Stepped(@),
                                            [func |-> CallAt.arg[1], pc |-> 0, open |-> 0])]
    /\ CallUnchanged

\* call of an imported function: the host function returns.
LimCallImport ==
    /\ CallRuns({"Call"})
    /\ CallAt.arg[1] < import_count(module)
    /\ run' = [run EXCEPT !.frames = Stepped(@)]
    /\ CallUnchanged

\* end of a block, or end of the function: the call returns.
LimEnd ==
    /\ CallRuns({"End"})
    /\ run' = IF TopCall.open > 0
                THEN [run EXCEPT !.frames[Len(run.frames)] =
                                    [@ EXCEPT !.pc = @ + 1, !.open = @ - 1]]
              ELSE [run EXCEPT !.frames = SubSeq(@, 1, Len(@) - 1),
                               !.status = IF Len(run.frames) = 1 THEN "returned"
                                          ELSE "running"]
    /\ CallUnchanged

NextCall ==
    \/ LimiterInject
    \/ LimEnter
    \/ LimGetGlobal
    \/ LimSetGlobal
    \/ LimI32Const
    \/ LimI32Add
    \/ LimI32Sub
    \/ LimI32GtU
    \/ LimIf
    \/ LimUnreachable
    \/ LimCall
    \/ LimCallImport
    \/ LimEnd

SpecCall == InitCall /\ [][NextCall]_vars

\* The stack cost of an active call: the cost the Context holds for a
\* function of the input, the analysed cost of its body for a thunk.
FrameCost(f) ==
    IF f < functions_space(module) THEN CostOf(f)
    ELSE compute_raw(limiter.output.c.types[
                        limiter.output.c.functions[f - import_count(module) + 1].type_ref + 1],
                     <<>>, LimitedCode(f), limiter.output.c).c

RECURSIVE ActiveCost(_, _)
\* The sum of the stack costs of the calls from frame i on, not reduced
\* modulo 2^32.
ActiveCost(frames, i) ==
    IF i > Len(frames) THEN Zero
    ELSE WrappingAdd(FrameCost(frames[i].func), ActiveCost(frames, i + 1))

\* The body of a function of the input has just been entered by a call.
BodyEntered ==
    /\ phase = "limited"
    /\ run.status = "running"
    /\ Len(run.frames) > 1
    /\ TopCall.pc = 0

\* C11: whenever the body of a callee is entered by a call, the stack costs
\* of all the active calls, the callee's included, sum to at most the limit.
C11_EnteredWithinLimit ==
    BodyEntered => ~LtU(limiter.stack_limit, ActiveCost(run.frames, 1))


(***************************************************************************)
(* The height max_height::compute returns against an execution of the      *)
(* function.                                                               *)
(*                                                                         *)
(* The module has one function of type (i32) -> () with no declared local. *)
(* Its body is some values, an if on the parameter with two arms, the      *)
(* drops of the values and the closing end.  Each arm leaves the stack as  *)
(* it found it or ends in an instruction that does not fall through, so    *)
(* every body is valid.  limiter is [status, height] with height what      *)
(* compute returned; run is [status, pc, stack, locals, ctrl]: stack holds *)
(* the i32 values, locals the argument, ctrl the blocks entered and not    *)
(* left, each [is_loop, open_pos, height] with height the number of values *)
(* below the block.  The argument is 0 or 1.                               *)
(***************************************************************************)
HeightTypes == <<[params |-> <<"I32">>, results |-> <<>>]>>

Arms ==
    {<<>>,
     <<I32Const(Num(7)), Drop>>,
     <<I32Const(Num(7)), I32Const(Num(1)), I32Add, Drop>>,
     <<I32Const(Num(1)), I32Const(Num(2)), I32Const(Num(3)), I32Const(Num(4)),
       Drop, Drop, Drop, Drop>>,
     <<Unreachable>>,
     <<Return>>,
     <<I32Const(Num(7)), Br(0)>>,
     <<Block, GetLocal(0), BrIf(0), I32Const(Num(7)), Drop, End>>,
     <<Loop, GetLocal(0), BrIf(1), End>>}

HeightBody(values, then_arm, else_arm) ==
    [i \in 1..values |-> I32Const(Num(i))] \o <<GetLocal(0), If>> \o then_arm \o <<Else>>
        \o else_arm \o <<End>> \o [i \in 1..values |-> Drop] \o <<End>>

HeightModule(code) ==
    [types |-> HeightTypes,
     imports |-> <<>>,
     sections |-> <<"Type", "Function", "Code">>,
     functions |-> <<[type_ref |-> 0, locals |-> <<>>, code |-> code]>>,
     globals |-> <<>>,
     exports |-> <<>>,
     elements |-> <<>>,
     start |-> None]

HeightModules ==
    {HeightModule(HeightBody(values, then_arm, else_arm)) :
        values \in 0..1, then_arm \in Arms, else_arm \in Arms}

NoExec == [status |-> "idle", pc |-> 0, stack |-> <<>>, locals |-> <<>>, ctrl |-> <<>>]

InitHeight ==
    /\ phase = "input"
    /\ module \in HeightModules
    /\ limiter = [status |-> "idle"]
    /\ run = NoExec
    /\ rules = DefaultRules
    /\ backend = NoBackend
    /\ result = NoResult
    /\ func = NoFunc
    /\ meter = NoMeter
    /\ gas = NoGas
    /\ counter = NoCounter

HeightUnchanged == UNCHANGED <<counter, limiter, phase, rules, module, backend, result, func, meter, gas>>

\* max_height::compute(0, module)
HeightCompute ==
    /\ phase = "input"
    /\ limiter.status = "idle"
    /\ \E height \in {compute(0, module)} :
        limiter' = [status |-> IF height.ok THEN "done" ELSE "failed", height |-> height]
    /\ phase' = "analysed"
    /\ UNCHANGED <<counter, rules, module, backend, result, func, meter, run, gas>>

ValCode == module.functions[1].code

ValAt == ValCode[run.pc + 1]

ValRuns(ops) == phase = "analysed" /\ run.status = "running" /\ ValAt.op \in ops

\* The function is called with an argument.
ValEnter ==
    /\ phase = "analysed"
    /\ limiter.status = "done"
    /\ run.status = "idle"
    /\ \E arg \in {Zero, Num(1)} :
        run' = [status |-> "running", pc |-> 0, stack |-> <<>>, locals |-> <<arg>>,
                ctrl |-> <<>>]
    /\ HeightUnchanged

ValGetLocal ==
    /\ ValRuns({"GetLocal"})
    /\ run' = [run EXCEPT !.pc = @ + 1, !.stack = Append(@, run.locals[ValAt.arg[1] + 1])]
    /\ HeightUnchanged

ValI32Const ==
    /\ ValRuns({"I32Const"})
    /\ run' = [run EXCEPT !.pc = @ + 1, !.stack = Append(@, ValAt.arg)]
    /\ HeightUnchanged

ValDrop ==
    /\ ValRuns({"Drop"})
    /\ run' = [run EXCEPT !.pc = @ + 1, !.stack = Pop(@, 1)]
    /\ HeightUnchanged

ValI32Add ==
    /\ ValRuns({"I32Add"})
    /\ run' = [run EXCEPT !.pc = @ + 1,
                          !.stack = Append(Pop(@, 2),
                                           Wrap32(WrappingAdd(Below(run.stack), Top(run.stack))))]
    /\ HeightUnchanged

\* block and loop: the block is entered.
ValBlock ==
    /\ ValRuns({"Block", "Loop"})
    /\ run' = [run EXCEPT !.pc = @ + 1,
                          !.ctrl = Append(@, [is_loop |-> ValAt.op = "Loop",
                                              open_pos |-> run.pc,
                                              height |-> Len(run.stack)])]
    /\ HeightUnchanged

\* if: the condition is popped; the then arm is entered when it is not 0,
\* the else arm when it is 0 and there is one, else the if is skipped.
ValIf ==
    /\ ValRuns({"If"})
    /\ \E entered \in {Append(run.ctrl, [is_loop |-> FALSE, open_pos |-> run.pc,
                                        height |-> Len(run.stack) - 1])} :
       \E e \in {ElseOrEndOf(ValCode, run.pc)} :
        run' = IF Top(run.stack) # Zero
                 THEN [run EXCEPT !.pc = @ + 1, !.stack = Pop(@, 1), !.ctrl = entered]
               ELSE IF ValCode[e + 1].op = "Else"
                 THEN [run EXCEPT !.pc = e + 1, !.stack = Pop(@, 1), !.ctrl = entered]
               ELSE [run EXCEPT !.pc = e + 1, !.stack = Pop(@, 1)]
    /\ HeightUnchanged

\* else met at the end of the then arm: the if is left.
ValElse ==
    /\ ValRuns({"Else"})
    /\ run' = [run EXCEPT !.pc = EndOf(ValCode, Top(run.ctrl).open_pos) + 1,
                          !.ctrl = Pop(@, 1)]
    /\ HeightUnchanged

\* end of a block, or of the function: the call returns.
ValEnd ==
    /\ ValRuns({"End"})
    /\ run' = IF run.ctrl = <<>> THEN [run EXCEPT !.status = "returned"]
              ELSE [run EXCEPT !.pc = @ + 1, !.ctrl = Pop(@, 1)]
    /\ HeightUnchanged

\* The state after a branch to label l: the values above the target block
\* are dropped (no block of the bodies has a result); a loop is continued
\* at its first instruction, a block or if is left, the function returns.
Branched(l) ==
    IF l >= Len(run.ctrl) THEN [run EXCEPT !.status = "returned"]
    ELSE LET target == run.ctrl[Len(run.ctrl) - l]
         IN  IF target.is_loop
                THEN [run EXCEPT !.pc = target.open_pos + 1,
                                 !.stack = SubSeq(@, 1, target.height),
                                 !.ctrl = Pop(@, l)]
             ELSE [run EXCEPT !.pc = EndOf(ValCode, target.open_pos) + 1,
                              !.stack = SubSeq(@, 1, target.height),
                              !.ctrl = Pop(@, l + 1)]

ValBr ==
    /\ ValRuns({"Br"})
    /\ run' = Branched(ValAt.arg[1])
    /\ HeightUnchanged

\* br_if: the condition is popped, the branch taken when it is not 0 (the
\* condition lies above the values the target keeps).
ValBrIf ==
    /\ ValRuns({"BrIf"})
    /\ run' = IF Top(run.stack) # Zero THEN Branched(ValAt.arg[1])
              ELSE [run EXCEPT !.pc = @ + 1, !.stack = Pop(@, 1)]
    /\ HeightUnchanged

ValReturn ==
    /\ ValRuns({"Return"})
    /\ run' = [run EXCEPT !.status = "returned"]
    /\ HeightUnchanged

ValUnreachable ==
    /\ ValRuns({"Unreachable"})
    /\ run' = [run EXCEPT !.status = "trapped"]
    /\ HeightUnchanged

NextHeight ==
    \/ HeightCompute
    \/ ValEnter
    \/ ValGetLocal
    \/ ValI32Const
    \/ ValDrop
    \/ ValI32Add
    \/ ValBlock
    \/ ValIf
    \/ ValElse
    \/ ValEnd
    \/ ValBr
    \/ ValBrIf
    \/ ValReturn
    \/ ValUnreachable

SpecHeight == InitHeight /\ [][NextHeight]_vars

\* C16: at every point of every execution of the function the number of
\* values on its value stack is at most the height the analyzer returned.
C16_HeightBoundsStack ==
    (phase = "analysed" /\ run.status = "running")
        => ~LtU(limiter.height.c, Num(Len(run.stack)))


(***************************************************************************)
(* The arithmetic of the costs: which width each aggregation is made in.   *)
(*                                                                         *)
(* inject is run on modules whose bodies hold runs of up to 2^32 + 2 nop   *)
(* instructions, under rules whose costs go up to u32::MAX, so that every  *)
(* checked operation of the pass is met on both sides of its limit:        *)
(*   - the sum of the locals of a body (mod.rs 262), with the local        *)
(*     groups <<u32::MAX, 1>>;                                             *)
(*   - the product call_per_local_cost x locals_count (mod.rs 594), with   *)
(*     two locals of cost u32::MAX each;                                   *)
(*   - Counter::increment (mod.rs 526): u64::MAX = (2^32 + 1) x u32::MAX,  *)
(*     so 2^32 + 1 instructions of cost u32::MAX fill a block exactly and  *)
(*     one more overflows;                                                 *)
(*   - the merge of finalize_metered_block (mod.rs 476): a block of        *)
(*     2^31 + 1 such instructions closed into a parent that holds as many; *)
(*   - the sum with gas_function_cost in insert_metering_calls             *)
(*     (mod.rs 693): the local gas function costs 11 x u32::MAX, so a      *)
(*     block of 2^32 - 9 instructions is the first whose charge overflows. *)
(* The bodies also hold a forbidden instruction or a branch out of the     *)
(* function after the run, or runs of calls and of memory.grow, which the  *)
(* pass rewrites.                                                          *)
(***************************************************************************)
Pow32 == <<0, 0, 0, 0, 1, 0, 0, 0>>

RunLengths ==
    {Num(3), WrappingAdd(Num(2147483647), Num(1)), WrappingAdd(Num(2147483647), Num(2)),
     WrappingSub(Pow32, Num(10)), WrappingSub(Pow32, Num(9)),
     WrappingAdd(Pow32, Num(1)), WrappingAdd(Pow32, Num(2))}

CostCodes(n) ==
    {<<Run(Nop, n), End>>,
     <<Run(Nop, n), Drop, End>>,
     <<Run(Nop, n), Block, Run(Nop, n), End, End>>,
     <<Block, Run(Nop, n), BrIf(0), Run(Nop, n), End, Nop, End>>,
     <<Run(Nop, n), Unreachable, End>>,
     <<Run(Nop, n), Br(1), End>>,
     <<Run(Call(0), n), Run(GrowMemory, n), End>>}

CostLocals == {<<>>, <<Num(1)>>, <<Num(2)>>, <<U32Max, Num(1)>>}

CostBodies ==
    {[locals |-> locals, code |-> code] :
        locals \in CostLocals, code \in UNION {CostCodes(n) : n \in RunLengths}}

\* The modules: one long body, alone or after a body that calls it, with an
\* imported function or none.
CostModules ==
    {ModuleOf(<<>>, <<body>>, 1, 0) : body \in CostBodies}
        \cup {ModuleOf(<<ImportOf("Function")>>,
                       <<[locals |-> <<Num(1)>>, code |-> <<Call(2), End>>], body>>, 3, 1) :
                body \in {b \in CostBodies : b.locals = <<>>}}

\* Rules under which a nop costs u32::MAX and every other instruction 1.
SkewedRules ==
    [cost |-> [o \in Ops |-> IF o = "Nop" THEN Some(U32Max) ELSE Some(Num(1))],
     grow |-> None,
     perLocal |-> Num(2)]

CostRuleSets == {GrowRules, ForbidRules, MaxRules, SkewedRules}

InitCost ==
    /\ phase = "input"
    /\ rules \in CostRuleSets
    /\ module \in CostModules
    /\ backend \in Backends
    /\ result = NoResult
    /\ func = NoFunc
    /\ meter = NoMeter
    /\ run = NoRun
    /\ gas = NoGas
    /\ counter = NoCounter
    /\ limiter = NoLimiter

SpecCost == InitCost /\ [][Next]_vars

(***************************************************************************)
(* The exact costs.  Which instructions a metered block holds does not     *)
(* depend on what they cost: the blocks of a body are found with rules     *)
(* under which the instructions of one op cost 1 and the others nothing,   *)
(* which gives the number of instructions of that op in every block, and   *)
(* the cost of a block under the rules in force is summed from these       *)
(* numbers in 128 bits, where no sum of the model overflows.               *)
(***************************************************************************)
Wide(a) == a \o Zero

WideZero == Wide(Zero)

RECURSIVE WideAddFrom(_, _, _, _)
\* The limbs of a + b from limb i on, a and b of sixteen limbs.
WideAddFrom(a, b, i, carry) ==
    IF i > 2 * Limbs THEN <<>>
    ELSE <<(a[i] + b[i] + carry) % Base>>
            \o WideAddFrom(a, b, i + 1, (a[i] + b[i] + carry) \div Base)

WideAdd(a, b) == WideAddFrom(a, b, 1, 0)

RECURSIVE WideMulFrom(_, _, _, _)
\* The limbs of a * b from limb k on, a and b of sixteen limbs.
WideMulFrom(a, b, k, carry) ==
    IF k > 2 * Limbs THEN <<>>
    ELSE LET column == MulColumn(a, b, k, 1) + carry
         IN  <<column % Base>> \o WideMulFrom(a, b, k + 1, column \div Base)

\* The exact product of two 64-bit values, sixteen limbs.
WideMul(a, b) == WideMulFrom(Wide(a), Wide(b), 1, 0)

AboveU64Max(w) == \E i \in (Limbs + 1)..(2 * Limbs) : w[i] # 0

\* Rules under which the instructions of one op cost 1 and the others nothing.
CountingRules(op) ==
    [cost |-> [o \in Ops |-> IF o = op THEN Some(Num(1)) ELSE Some(Zero)],
     grow |-> None,
     perLocal |-> Zero]

\* The metered blocks of code under the counting rules of every op whose
\* cost is added to a block (all but end and else): pairs <<op, blocks>>.
BlockCounts(code) ==
    {<<op, determine_metered_blocks(code, CountingRules(op), Zero).blocks>> :
        op \in {code[i].op : i \in 1..Len(code)} \ {"End", "Else"}}

\* The cost of the block that starts at position s, zero if there is none.
CountAt(blocks, s) ==
    LET at == {b \in 1..Len(blocks) : blocks[b].start_pos = s}
    IN  IF at = {} THEN Zero ELSE blocks[Only(at)].cost

RECURSIVE ExactSum(_, _)
\* The exact cost of the instructions of the block that starts at s, from
\* the numbers of instructions of every op in it; an op the rules forbid
\* counts for nothing.
ExactSum(counts, s) ==
    IF counts = {} THEN WideZero
    ELSE LET pair == CHOOSE p \in counts : TRUE
             count == CountAt(pair[2], s)
         IN  IF count = Zero THEN ExactSum(counts \ {pair}, s)
             ELSE WideAdd(WideMul(unwrap_or(rules.cost[pair[1]], Zero), count),
                          ExactSum(counts \ {pair}, s))

\* The number of locals of a body, zero when it is above u32::MAX.
LocalsOf(body) == unwrap_or(LocalsCount(body.locals, 1, Some(Zero)), Zero)

\* The exact cost of the metered block of a body that starts at s: its
\* instructions and, for the function's first block, the surcharge
\* call_per_local_cost x locals_count.
ExactCost(body, counts, s) ==
    IF s = 0
    THEN WideAdd(ExactSum(counts, s), WideMul(call_per_local_cost(rules), LocalsOf(body)))
    ELSE ExactSum(counts, s)

\* What the gas function itself costs per charge: nothing for a host function.
SelfCostOfCharge ==
    IF backend.kind = "mutable_global"
    THEN FoldCost(rules, ChargedInstructions, 1) ELSE Zero

\* The exact charge of a block of the exact cost given: the cost and
\* self_cost; a block that costs nothing is not charged.
ExactCharge(cost) ==
    IF cost = WideZero THEN WideZero ELSE WideAdd(cost, Wide(SelfCostOfCharge))

RECURSIVE ChargesFrom(_, _, _)
\* The exact charges of the blocks of a body that start at s or after it,
\* in the order of their positions.
ChargesFrom(body, counts, s) ==
    IF s >= Len(body.code) THEN <<>>
    ELSE LET charge == Only({ExactCharge(cost) : cost \in {ExactCost(body, counts, s)}})
         IN  IF charge = WideZero THEN ChargesFrom(body, counts, s + 1)
             ELSE <<charge>> \o ChargesFrom(body, counts, s + 1)

\* The exact charges of the metered blocks of a body.
ExactCharges(body) ==
    Only({ChargesFrom(body, counts, 0) : counts \in {BlockCounts(body.code)}})

\* An accumulated cost exceeds u64::MAX: the cost of a metered block of a
\* body of m, or that cost with self_cost added.
Overflows64(m) ==
    \E f \in 1..Len(m.functions) : \E charges \in {ExactCharges(m.functions[f])} :
        \E i \in 1..Len(charges) : AboveU64Max(charges[i])

\* The locals of some body of m are more than u32::MAX.
LocalsOverflow32(m) ==
    \E f \in 1..Len(m.functions) :
        ~IsSome(LocalsCount(m.functions[f].locals, 1, Some(Zero)))

\* Every body of m is well nested.
WellNestedBodies(m) ==
    \A f \in 1..Len(m.functions) : WellNested(m.functions[f].code, 1, 1)

\* C17 as stated: inject fails when the rules give no cost for an instruction
\* or a 64-bit sum of costs overflows, and succeeds on every other well-formed
\* module.
C17_ErrIffForbiddenOrOverflow64 ==
    phase \in {"done", "failed"} =>
        \A forbidden \in {HasForbidden(module)}, overflows \in {Overflows64(module)} :
            /\ (forbidden \/ overflows) => ~result.ok
            /\ (WellFormed(module) /\ ~forbidden /\ ~overflows) => result.ok

\* C17 amended: inject fails when the rules give no cost for an instruction
\* or a 64-bit sum of costs overflows, and also when call_per_local_cost
\* times the number of locals of a body does not fit in 32 bits; on every
\* other well-formed module it succeeds.
C17_ErrIffForbiddenOrOverflow ==
    phase \in {"done", "failed"} =>
        \A forbidden \in {HasForbidden(module)}, overflows \in {Overflows64(module)} :
            /\ (forbidden \/ overflows) => ~result.ok
            /\ WellFormed(module) =>
                    (result.ok <=> ~(\/ forbidden
                                     \/ overflows
                                     \/ SurchargeOverflows32(module)))

\* inject failed on a well-formed module none of whose instructions is
\* forbidden and whose surcharges fit in 32 bits: the cost of a metered block
\* is above u64::MAX.
C17_Witness ==
    /\ phase = "failed"
    /\ WellFormed(module)
    /\ ~HasForbidden(module)
    /\ ~SurchargeOverflows32(module)
    /\ Overflows64(module)

\* C23 as stated: on a well-formed module without forbidden instructions
\* inject fails exactly when an accumulated cost exceeds u64::MAX, the
\* surcharge call_per_local_cost x locals_count taken as a 64-bit product.
C23_SucceedsWhenFitsIn64 ==
    (phase \in {"done", "failed"} /\ WellFormed(module) /\ ~HasForbidden(module))
        => (result.ok <=> ~Overflows64(module))

\* C23 amended: the sums of instruction costs, the merging of blocks and the
\* added self_cost are made in checked 64-bit arithmetic, but the number of
\* locals is a checked 32-bit sum and the surcharge a checked 32-bit product.
\* On a module with well-nested bodies and no forbidden instruction, inject
\* fails exactly when an accumulated cost exceeds u64::MAX, or the locals of
\* a body or their surcharge exceed u32::MAX; when it succeeds, the charges
\* of every body are the exact costs of its metered blocks plus self_cost.
C23_Checked64ButSurcharge32 ==
    (phase \in {"done", "failed"} /\ WellNestedBodies(module) /\ ~HasForbidden(module)) =>
        /\ result.ok <=> ~(\/ Overflows64(module)
                           \/ SurchargeOverflows32(module)
                           \/ LocalsOverflow32(module))
        /\ result.ok =>
                \A f \in 1..Len(module.functions) :
                    \E constants \in {ChargeConstants(result.module.functions[f].code)} :
                        [i \in 1..Len(constants) |-> Wide(constants[i].arg)]
                            = ExactCharges(module.functions[f])

\* inject failed on a well-formed module without forbidden instructions
\* none of whose accumulated costs exceeds u64::MAX: the surcharge of a body
\* with two locals is above u32::MAX.
C23_Witness ==
    /\ phase = "failed"
    /\ WellFormed(module) /\ ~HasForbidden(module)
    /\ ~Overflows64(module)
    /\ SurchargeOverflows32(module)
    /\ \E f \in 1..Len(module.functions) : module.functions[f].locals = <<Num(2)>>


(***************************************************************************)
(* The grow counter at work.  A module that grows its memory is            *)
(* instrumented under rules with a Linear memory_grow_cost and             *)
(* instantiated with a memory of some pages and some gas; the function     *)
(* that add_grow_counter pushed is called with a page count, as the        *)
(* rewritten memory.grow of a body does, and its instructions are executed *)
(* one by one on a value stack.  Here gas is the record                    *)
(*   status  : "idle", "running", "returned" or "trapped"                  *)
(*   local   : local 0 of the running call, the page count                 *)
(*   left    : the gas left                                                *)
(*   memory  : the size of the memory in pages                             *)
(*   entry   : the size of the memory when the call was made               *)
(*   charges : the arguments of the calls of the gas function made by the  *)
(*             running call, in order                                      *)
(*   grown   : the operand of the memory.grow the running call executed    *)
(*             and the number of charges made before it, None before       *)
(*   ret     : the value the call returned                                 *)
(***************************************************************************)
MaxGrows == 2

PageLimit == Num(65536)

MinusOne32 == U32Max

PageCounts == {Zero, Num(1), Num(3), Num(65536), Pow31, U32Max}

GrowCosts == {Num(1), Num(10000), Pow31, U32Max}

GrowRuleSets == {ConstantCostRules(Num(1), k, Num(1)) : k \in GrowCosts}

GrowModules ==
    {ModuleOf(imports, <<[locals |-> <<>>, code |-> <<GetGlobal(0), GrowMemory, End>>]>>,
              CountKind(imports, "Function") + 1, 0) :
        imports \in {<<>>, <<ImportOf("Function"), ImportOf("Global")>>}}

\* The body of the grow counter: the last function of the output.
GrowCode == result.module.functions[Len(result.module.functions)].code

\* The index of the gas function in the output.
GrowGasFunc == gas_func_idx(module, gas_meter(backend, module, rules))

InitGrow ==
    /\ phase = "instantiated"
    /\ rules \in GrowRuleSets
    /\ module \in GrowModules
    /\ backend \in Backends
    /\ result = inject(module, backend, rules)
    /\ \E left \in {Num(5), Pow63, U64Max}, pages \in {Num(1), Num(65535)} :
        gas = [status |-> "idle", pc |-> 0, stack |-> <<>>, local |-> Zero,
               left |-> left, memory |-> pages, entry |-> pages, charges |-> <<>>,
               grown |-> None, ret |-> Zero, calls |-> 0]
    /\ func = NoFunc
    /\ meter = NoMeter
    /\ run = NoRun
    /\ counter = NoCounter
    /\ limiter = NoLimiter

GrowAt(ops) == phase = "instantiated" /\ gas.status = "running" /\ GrowCode[gas.pc + 1].op \in ops

GrowInstr == GrowCode[gas.pc + 1]

GrowUnchanged ==
    UNCHANGED <<counter, limiter, phase, rules, func, meter, run, module, backend, result>>

\* A rewritten memory.grow of a body calls the grow counter with a page count.
GrowEnter ==
    /\ phase = "instantiated"
    /\ gas.status \in {"idle", "returned"}
    /\ gas.calls < MaxGrows
    /\ \E pages \in PageCounts :
        gas' = [gas EXCEPT !.status = "running", !.pc = 0, !.stack = <<>>,
                           !.local = pages, !.entry = gas.memory, !.charges = <<>>,
                           !.grown = None, !.calls = @ + 1]
    /\ GrowUnchanged

GrowGetLocal ==
    /\ GrowAt({"GetLocal"})
    /\ GrowInstr.arg[1] = 0
    /\ gas' = [gas EXCEPT !.pc = @ + 1, !.stack = Append(@, gas.local)]
    /\ GrowUnchanged

\* i64.extend_i32_u: the low 32 bits, the high 32 bits zero.
GrowI64ExtendUI32 ==
    /\ GrowAt({"I64ExtendUI32"})
    /\ gas' = [gas EXCEPT !.pc = @ + 1, !.stack = Append(Pop(@, 1), Wrap32(Top(gas.stack)))]
    /\ GrowUnchanged

GrowI64Const ==
    /\ GrowAt({"I64Const"})
    /\ gas' = [gas EXCEPT !.pc = @ + 1, !.stack = Append(@, GrowInstr.arg)]
    /\ GrowUnchanged

\* i64.mul: the product modulo 2^64.
GrowI64Mul ==
    /\ GrowAt({"I64Mul"})
    /\ gas' = [gas EXCEPT !.pc = @ + 1,
                !.stack = Append(Pop(@, 2), WrappingMul(Below(gas.stack), Top(gas.stack)))]
    /\ GrowUnchanged

\* call of the gas function: it takes its argument from what is left, or
\* traps when less is left.
GrowCallGas ==
    /\ GrowAt({"Call"})
    /\ GrowInstr.arg[1] = GrowGasFunc
    /\ gas' = IF GeU(gas.left, Top(gas.stack))
              THEN [gas EXCEPT !.pc = @ + 1, !.stack = Pop(@, 1),
                               !.left = WrappingSub(@, Top(gas.stack)),
                               !.charges = Append(@, Top(gas.stack))]
              ELSE [gas EXCEPT !.status = "trapped", !.stack = <<>>,
                               !.left = IF backend.kind = "mutable_global" THEN U64Max ELSE @,
                               !.charges = Append(@, Top(gas.stack))]
    /\ GrowUnchanged

\* memory.grow: the old size and a memory that many pages larger, or -1 and
\* the memory as it was when it would pass the limit.
GrowMemoryGrow ==
    /\ GrowAt({"GrowMemory"})
    /\ gas' = IF LtU(PageLimit, WrappingAdd(gas.memory, Top(gas.stack)))
              THEN [gas EXCEPT !.pc = @ + 1, !.stack = Append(Pop(@, 1), MinusOne32),
                               !.grown = Some(<<Top(gas.stack), Len(gas.charges)>>)]
              ELSE [gas EXCEPT !.pc = @ + 1, !.stack = Append(Pop(@, 1), gas.memory),
                               !.memory = WrappingAdd(@, Top(gas.stack)),
                               !.grown = Some(<<Top(gas.stack), Len(gas.charges)>>)]
    /\ GrowUnchanged

\* The end of the body: the call returns what is on the stack.
GrowEnd ==
    /\ GrowAt({"End"})
    /\ gas' = [gas EXCEPT !.status = "returned", !.stack = <<>>, !.ret = Top(gas.stack)]
    /\ GrowUnchanged

NextGrow ==
    \/ GrowEnter
    \/ GrowGetLocal
    \/ GrowI64ExtendUI32
    \/ GrowI64Const
    \/ GrowI64Mul
    \/ GrowCallGas
    \/ GrowMemoryGrow
    \/ GrowEnd

SpecGrow == InitGrow /\ [][NextGrow]_vars

\* The product of a u32 and a u64 as an unsigned 64-bit value, None when it
\* does not fit.
ExactProduct(a, b) == TimesFrom(a, b, 31, Some(Zero))

\* C24: a call of the grow counter with page count p charges p x k, k being
\* the Linear cost, exact in 64 bits, by one call of the gas function made
\* before memory.grow; it then grows the memory by p and returns the result
\* of memory.grow.  A call that ran out of gas did not grow the memory.
C24_GrowCounterCharges ==
    /\ (gas.status \in {"running", "returned"} /\ IsSome(gas.grown)) =>
            /\ gas.grown[1] = <<gas.local, 1>>
            /\ Some(gas.charges[1]) = ExactProduct(memory_grow_cost(rules)[1], gas.local)
    /\ gas.status = "returned" =>
            /\ Len(gas.charges) = 1
            /\ IsSome(gas.grown)
            /\ IF LtU(PageLimit, WrappingAdd(gas.entry, gas.local))
               THEN gas.ret = MinusOne32 /\ gas.memory = gas.entry
               ELSE gas.ret = gas.entry /\ gas.memory = WrappingAdd(gas.entry, gas.local)
    /\ gas.status = "trapped" => (~IsSome(gas.grown) /\ gas.memory = gas.entry)

\* A call with 2^31 pages or more under a cost of 2^31 or more returned: the
\* charge is above 2^63, and memory.grow gave -1.
C24_Witness ==
    /\ gas.status = "returned"
    /\ ~LtU(gas.local, Pow31)
    /\ ~LtU(memory_grow_cost(rules)[1], Pow31)
    /\ LtU(Pow63, gas.charges[1])
    /\ gas.ret = MinusOne32


\* The charges of a body of the output: the positions of an i64.const that a
\* call of the gas function follows.
ChargesOf(code, gas_func) ==
    {i \in 1..(Len(code) - 1) : code[i].op = "I64Const" /\ code[i + 1] = Call(gas_func)}

\* C25: in the output the body of the local gas function (mutable-global
\* backend) and the body of the grow counter (either backend) are the
\* synthesized instructions, without a charge and with the memory.grow of the
\* grow counter in place, while every body of the input got the charges of
\* its metered blocks, at least one.
C25_SynthesizedNotMetered ==
    phase = "done" =>
        LET out == result.module
            gas_func == gas_func_idx(module, gas_meter(backend, module, rules))
            grows == /\ enabled(memory_grow_cost(rules))
                     /\ \E f \in 1..Len(module.functions) : HasGrow(module.functions[f].code)
        IN  /\ backend.kind = "mutable_global" =>
                    out.functions[Len(module.functions) + 1].code =
                        <<GetGlobal(OldGlobalsSpace), GetLocal(0), I64GeU, If,
                          GetGlobal(OldGlobalsSpace), GetLocal(0), I64Sub,
                          SetGlobal(OldGlobalsSpace), Return, End,
                          I64Const(U64Max), SetGlobal(OldGlobalsSpace), Unreachable, End>>
            /\ grows =>
                    out.functions[Len(out.functions)].code =
                        <<GetLocal(0), GetLocal(0), I64ExtendUI32,
                          I64Const(memory_grow_cost(rules)[1]), I64Mul, Call(gas_func),
                          GrowMemory, End>>
            /\ Len(out.functions) = Len(module.functions)
                    + (IF backend.kind = "mutable_global" THEN 1 ELSE 0)
                    + (IF grows THEN 1 ELSE 0)
            /\ \A f \in 1..Len(out.functions) :
                    IF f <= Len(module.functions)
                    THEN /\ Cardinality(ChargesOf(out.functions[f].code, gas_func)) =
                                Len(BlocksOf(f))
                         /\ Len(BlocksOf(f)) >= 1
                         /\ Len(out.functions[f].code) =
                                Len(module.functions[f].code) + 2 * Len(BlocksOf(f))
                    ELSE ChargesOf(out.functions[f].code, gas_func) = {}

\* A module instrumented with the mutable-global backend under rules with a
\* Linear cost, a body of which grows the memory: the output holds the gas
\* function and, after it, the grow counter.
C25_Witness ==
    /\ phase = "done"
    /\ backend.kind = "mutable_global"
    /\ enabled(memory_grow_cost(rules))
    /\ \E f \in 1..Len(module.functions) : HasGrow(module.functions[f].code)
    /\ Len(result.module.functions) = Len(module.functions) + 2
    /\ HasGrow(result.module.functions[Len(module.functions) + 2].code)


(***************************************************************************)
(* The stack-height global during and after the calls of a limited module. *)
(***************************************************************************)
\* The value of the stack-height global of the instance.
HeightGlobal == run.globals[limiter.ctx.stack_height_global_idx + 1]

\* The positions (from 0) at which an instrumented call begins in a body of
\* the output: the preamble global.get, i32.const, i32.add, global.set, and
\* the call ten instructions on.
InstrumentedAt(code) ==
    {s \in 0..(Len(code) - 15) :
        /\ code[s + 1] = GetGlobal(limiter.ctx.stack_height_global_idx)
        /\ code[s + 2].op = "I32Const"
        /\ code[s + 3].op = "I32Add"
        /\ code[s + 4] = SetGlobal(limiter.ctx.stack_height_global_idx)
        /\ code[s + 11].op = "Call"}

\* The cost of the instrumented call that an execution at pc is inside of,
\* its preamble having added the cost and its postamble not yet having
\* taken it off; 0 outside of such a call.
InFlight(code, pc) ==
    LET inside == {s \in InstrumentedAt(code) : s + 4 <= pc /\ pc <= s + 14}
    IN  IF inside = {} THEN Zero ELSE code[Only(inside) + 2].arg

RECURSIVE InFlightSum(_, _)
\* The costs of the instrumented calls that the active calls from frame i on
\* are inside of, added up.
InFlightSum(frames, i) ==
    IF i > Len(frames) THEN Zero
    ELSE WrappingAdd(InFlight(LimitedCode(frames[i].func), frames[i].pc),
                     InFlightSum(frames, i + 1))

\* The execution is right after the postamble of an instrumented call made
\* by a function that was itself called.
AfterPostamble ==
    /\ phase = "limited"
    /\ run.status = "running"
    /\ Len(run.frames) >= 2
    /\ \E s \in InstrumentedAt(LimitedCode(TopCall.func)) : TopCall.pc = s + 15

\* C26: at every point of an execution the stack-height global is the sum,
\* modulo 2^32, of the costs of the instrumented calls that are under way,
\* so that after the postamble of a call it is what it was before the
\* preamble, and 0 as on entry when the call of the host has returned; after
\* a trap it holds the costs of the calls that were under way, not 0.
C26_GlobalRestored ==
    (phase = "limited" /\ run.status \in {"running", "returned", "trapped"}) =>
        /\ HeightGlobal = Wrap32(InFlightSum(run.frames, 1))
        /\ run.status = "returned" => HeightGlobal = Zero
        /\ run.status = "trapped" => HeightGlobal # Zero
        /\ AfterPostamble =>
                HeightGlobal = Wrap32(InFlightSum(SubSeq(run.frames, 1, Len(run.frames) - 1), 1))

\* An instrumented call made inside a called function has returned and its
\* postamble is done: the global holds the cost of the calls still under way.
C26_Witness ==
    /\ AfterPostamble
    /\ HeightGlobal # Zero


(***************************************************************************)
(* The constants of the thunks.                                            *)
(***************************************************************************)
\* The thunk that is function t of the output has, after the n parameters
\* of f, the configured limit as the constant compared with the global, and
\* the same constant in preamble and postamble: the cost of f plus the
\* height the analyzer gives the thunk body.
ThunkConstants(t, f) ==
    LET thunk == limiter.output.c.functions[t - import_count(module) + 1]
        n == Len(SignatureOf(f).params)
        height == compute_raw(SignatureOf(f), <<>>, thunk.code, limiter.output.c).c
    IN  /\ thunk.code[n + 6] = I32Const(limiter.stack_limit)
        /\ thunk.code[n + 2] = thunk.code[n + 13]
        /\ thunk.code[n + 2] = I32Const(WrappingAdd(CostOf(f), height))

\* C30: in every thunk of a module made by inject_stack_limiter, whatever
\* the limit, the constant compared with the stack-height global is the
\* limit, and the constants of preamble and postamble are both the cost of
\* the callee plus the analysed height of the thunk body.
C30_ThunkConstantsForEveryLimit ==
    limiter.status = "done" =>
        \A t \in AddedFuncs : \A f \in Thunked : IsThunkOf(t, f) => ThunkConstants(t, f)


(***************************************************************************)
(* The analyzer of max_height.rs turn by turn.                             *)
(*                                                                         *)
(* compute is run on the one function, of type (i32) -> (), of a module;   *)
(* every turn of its loop over the instructions is a step.  The bodies are *)
(* all the well-nested sequences of at most MaxBody instructions among     *)
(* block, block (result i32), i32.const, drop, unreachable, br 0,          *)
(* br_table 0 1, return and end, closed by the end of the function; they   *)
(* need not be valid.  limiter is the record                               *)
(*   status  : "running", "done" after Ok, "failed" after Err              *)
(*   cursor  : the number of instructions taken                            *)
(*   stack   : the Stack with max_height                                   *)
(*   openers : for every frame of the control stack the position (from 1)  *)
(*             of the instruction that pushed it, 0 for the function's     *)
(*   seen    : the greatest height left by a turn taken in a frame that    *)
(*             was not polymorphic                                         *)
(*   height  : what compute returned                                       *)
(***************************************************************************)
MaxBody == 4

\* Block(BlockType::Value(ValueType::I32))
BlockI32 == Ins("Block", <<"I32">>)

AnalyzedInstructions ==
    {Block, BlockI32, I32Const(Num(1)), Drop, Unreachable, Br(0), BrTable(<<0, 1>>),
     Return, End}

AnalyzedBodies ==
    {code \in {Append(body, End) :
                body \in UNION {[1..n -> AnalyzedInstructions] : n \in 0..MaxBody}} :
        WellNested(code, 1, 1)}

AnalyzedCode == module.functions[1].code

AnalyzedFn == FnOf(module.types[1], <<>>, module)

InitAnalyze ==
    /\ phase = "input"
    /\ module \in {HeightModule(code) : code \in AnalyzedBodies}
    /\ limiter = [status |-> "running", cursor |-> 0, stack |-> StartStack,
                  openers |-> <<0>>, seen |-> 0, height |-> Zero]
    /\ run = NoExec
    /\ rules = DefaultRules
    /\ backend = NoBackend
    /\ result = NoResult
    /\ func = NoFunc
    /\ meter = NoMeter
    /\ gas = NoGas
    /\ counter = NoCounter

AnalyzeUnchanged ==
    UNCHANGED <<counter, phase, rules, module, backend, result, func, meter, run, gas>>

\* The instruction of the turn to come.
Opcode == AnalyzedCode[limiter.cursor + 1]

\* The loop of compute is at an instruction.
Turning ==
    /\ phase = "input"
    /\ limiter.status = "running"
    /\ limiter.cursor < Len(AnalyzedCode)

\* The frame at the top of the control stack is polymorphic.
InPolymorphic ==
    /\ limiter.stack.control_stack # <<>>
    /\ TopFrame(limiter.stack).is_polymorphic

\* The openers after a turn that left the control stack as long as it was,
\* one frame longer or one frame shorter.
OpenersAfter(after) ==
    IF Len(after.control_stack) > Len(limiter.stack.control_stack)
        THEN Append(limiter.openers, limiter.cursor + 1)
    ELSE IF Len(after.control_stack) < Len(limiter.stack.control_stack)
        THEN SubSeq(limiter.openers, 1, Len(limiter.openers) - 1)
    ELSE limiter.openers

\* The greatest height seen after a turn taken in a frame that is not
\* polymorphic and that the turn did not make polymorphic.
SeenAfter(after) ==
    IF InPolymorphic \/ Opcode.op \in {"Unreachable", "Br", "BrTable", "Return"}
        THEN limiter.seen
    ELSE IF after.values > limiter.seen THEN after.values
    ELSE limiter.seen

\* One turn of the loop: the Stack after it, or the Err compute returns.
Turn ==
    \E r \in {AnalyzeTurn(limiter.stack, Opcode, AnalyzedFn, module)} :
        limiter' = IF r.ok
                   THEN [limiter EXCEPT !.cursor = @ + 1, !.stack = r.c,
                                        !.openers = OpenersAfter(r.c),
                                        !.seen = SeenAfter(r.c)]
                   ELSE [limiter EXCEPT !.status = "failed"]

\* A turn in a polymorphic frame: the instruction is skipped, or counted as
\* entering or leaving a block of the unreachable code.
AnalyzeUnreachable ==
    /\ Turning
    /\ InPolymorphic
    /\ Turn
    /\ AnalyzeUnchanged

\* Block(ty) | Loop(ty) | If(ty)
AnalyzeBlock ==
    /\ Turning
    /\ ~InPolymorphic
    /\ Opcode.op \in {"Block", "Loop", "If"}
    /\ Turn
    /\ AnalyzeUnchanged

\* End, and the pop_frame of the post-execution stage
AnalyzeEnd ==
    /\ Turning
    /\ ~InPolymorphic
    /\ Opcode.op = "End"
    /\ Turn
    /\ AnalyzeUnchanged

\* Unreachable, Br, BrTable, Return: mark_unreachable
AnalyzeNoFallThrough ==
    /\ Turning
    /\ ~InPolymorphic
    /\ Opcode.op \in {"Unreachable", "Br", "BrTable", "Return"}
    /\ Turn
    /\ AnalyzeUnchanged

\* The instructions that push and pop values.
AnalyzeValues ==
    /\ Turning
    /\ ~InPolymorphic
    /\ Opcode.op \notin {"Block", "Loop", "If", "End", "Unreachable", "Br", "BrTable", "Return"}
    /\ Turn
    /\ AnalyzeUnchanged

\* Ok((ACTIVATION_FRAME_HEIGHT + max_height as u32, ...))
AnalyzeReturn ==
    /\ phase = "input"
    /\ limiter.status = "running"
    /\ limiter.cursor = Len(AnalyzedCode)
    /\ limiter' = [limiter EXCEPT !.status = "done",
                        !.height = Num(ACTIVATION_FRAME_HEIGHT + limiter.stack.max_height)]
    /\ AnalyzeUnchanged

NextAnalyze ==
    \/ AnalyzeUnreachable
    \/ AnalyzeBlock
    \/ AnalyzeEnd
    \/ AnalyzeNoFallThrough
    \/ AnalyzeValues
    \/ AnalyzeReturn

SpecAnalyze == InitAnalyze /\ [][NextAnalyze]_vars


(***************************************************************************)
(* Validation of the bodies the analyzer is run on (WebAssembly 1.0, all   *)
(* values i32): vals is the height of the operand stack, a control frame   *)
(* is [height, end_arity, br_arity, unreachable].                          *)
(***************************************************************************)
\* The number of results of a block instruction; 0 for the function (0).
ArityOf(pos) == IF pos > 0 /\ AnalyzedCode[pos].arg = <<"I32">> THEN 1 ELSE 0

\* The operand stack after n values are popped in frame top, -1 when they
\* are not there.
PopOperandsIn(vals, top, n) ==
    IF vals - top.height >= n THEN vals - n
    ELSE IF top.unreachable THEN top.height
    ELSE -1

RECURSIVE ValidatedFrom(_, _, _, _)
ValidatedFrom(code, i, vals, ctrl) ==
    IF i > Len(code) THEN ctrl = <<>>
    ELSE IF ctrl = <<>> \/ vals < 0 THEN FALSE
    ELSE LET top == ctrl[Len(ctrl)]
             op == code[i].op
             results == IF code[i].arg = <<"I32">> THEN 1 ELSE 0
             target(l) == ctrl[Len(ctrl) - l]
             stopped == [ctrl EXCEPT ![Len(ctrl)].unreachable = TRUE]
         IN  CASE op = "Block" ->
                    ValidatedFrom(code, i + 1, vals,
                        Append(ctrl, [height |-> vals, end_arity |-> results,
                                      br_arity |-> results, unreachable |-> FALSE]))
               [] op = "I32Const" -> ValidatedFrom(code, i + 1, vals + 1, ctrl)
               [] op = "Drop" ->
                    ValidatedFrom(code, i + 1, PopOperandsIn(vals, top, 1), ctrl)
               [] op = "Unreachable" -> ValidatedFrom(code, i + 1, top.height, stopped)
               [] op = "Br" ->
                    /\ code[i].arg[1] < Len(ctrl)
                    /\ PopOperandsIn(vals, top, target(code[i].arg[1]).br_arity) >= 0
                    /\ ValidatedFrom(code, i + 1, top.height, stopped)
               [] op = "BrTable" ->
                    /\ \A k \in 1..Len(code[i].arg) :
                            /\ code[i].arg[k] < Len(ctrl)
                            /\ target(code[i].arg[k]).br_arity
                                    = target(code[i].arg[1]).br_arity
                    /\ PopOperandsIn(vals, top, 1 + target(code[i].arg[1]).br_arity) >= 0
                    /\ ValidatedFrom(code, i + 1, top.height, stopped)
               [] op = "Return" ->
                    /\ PopOperandsIn(vals, top, ctrl[1].end_arity) >= 0
                    /\ ValidatedFrom(code, i + 1, top.height, stopped)
               [] op = "End" ->
                    /\ PopOperandsIn(vals, top, top.end_arity) = top.height
                    /\ ValidatedFrom(code, i + 1, top.height + top.end_arity,
                                     SubSeq(ctrl, 1, Len(ctrl) - 1))

\* The body is a valid body of a function without results.
ValidatedBody(code) ==
    ValidatedFrom(code, 1, 0,
        <<[height |-> 0, end_arity |-> 0, br_arity |-> 0, unreachable |-> FALSE]>>)

\* The turn to come takes the end that closes the top frame, in a frame that
\* is polymorphic or not.
ClosingEnd ==
    /\ Turning
    /\ Opcode.op = "End"
    /\ InPolymorphic => TopFrame(limiter.stack).unreachable_depth = 1

\* C27: on a validated body, the turn that takes an end pops the top frame
\* and leaves the height at the frame's start_height plus 1 if the block
\* has a result and 0 if not, whether or not the frame was polymorphic, and
\* the analysis of a validated body does not fail.
C27_EndTruncates ==
    /\ [][(ClosingEnd /\ ValidatedBody(AnalyzedCode)) =>
            /\ limiter'.status = "running"
            /\ Len(limiter'.stack.control_stack) = Len(limiter.stack.control_stack) - 1
            /\ limiter'.stack.values =
                    TopFrame(limiter.stack).start_height
                        + ArityOf(limiter.openers[Len(limiter.openers)])]_vars
    /\ [](ValidatedBody(AnalyzedCode) => limiter.status # "failed")


\* The branch arity of the frame a label names at the turn to come: the
\* result of the block that pushed it, none for the function's frame.
BranchArity(label) == ArityOf(limiter.openers[Len(limiter.openers) - label])

\* The turn to come takes, in a frame that is not polymorphic, a br_table
\* two targets of which differ in branch arity.
BrTableOfDifferingArity ==
    /\ Turning
    /\ ~InPolymorphic
    /\ Opcode.op = "BrTable"
    /\ \E j, k \in 1..Len(Opcode.arg) : BranchArity(Opcode.arg[j]) # BranchArity(Opcode.arg[k])

\* C28: the analysis fails at a br_table whose targets differ in branch
\* arity, and an analysis that succeeded met no such br_table.
C28_BrTableArityChecked ==
    [][BrTableOfDifferingArity => limiter'.status = "failed"]_vars


\* The turn to come takes, in a frame that is not polymorphic and holds no
\* value of its own, an instruction that pops a value.
PopsAtStartHeight ==
    /\ Turning
    /\ ~InPolymorphic
    /\ limiter.stack.values = TopFrame(limiter.stack).start_height
    /\ Opcode.op = "Drop"

\* C29: a turn that takes unreachable, br, br_table or return in a frame
\* that is not polymorphic makes the frame polymorphic; a turn taken in a
\* polymorphic frame does not fail and changes neither the height nor the
\* maximum, and the frame stays polymorphic until the end that closes it,
\* which pops it; a pop in a frame that is not polymorphic and whose height
\* is its start_height fails the analysis; and compute returns
\* ACTIVATION_FRAME_HEIGHT plus the greatest height seen after a turn taken
\* outside of polymorphic code.
C29_PolymorphicUntilEnd ==
    /\ [][(Turning /\ ~InPolymorphic
                /\ Opcode.op \in {"Unreachable", "Br", "BrTable", "Return"}) =>
            /\ limiter'.status = "running"
            /\ TopFrame(limiter'.stack).is_polymorphic
            /\ limiter'.stack.max_height = limiter.stack.max_height]_vars
    /\ [][(Turning /\ InPolymorphic) =>
            /\ limiter'.status = "running"
            /\ limiter'.stack.values = limiter.stack.values
            /\ limiter'.stack.max_height = limiter.stack.max_height
            /\ IF ClosingEnd
               THEN limiter'.stack.control_stack =
                        SubSeq(limiter.stack.control_stack, 1,
                               Len(limiter.stack.control_stack) - 1)
               ELSE /\ Len(limiter'.stack.control_stack) = Len(limiter.stack.control_stack)
                    /\ TopFrame(limiter'.stack).is_polymorphic]_vars
    /\ [][PopsAtStartHeight => limiter'.status = "failed"]_vars
    /\ [](limiter.status = "running" => limiter.stack.max_height = limiter.seen)
    /\ [](limiter.status = "done" =>
            /\ limiter.height = Num(ACTIVATION_FRAME_HEIGHT + limiter.seen)
            /\ compute(0, module) = Ok(limiter.height))
    /\ [](limiter.status = "failed" => ~compute(0, module).ok)

\* An analysis that is done met a value, then an unreachable, then two more
\* values in the polymorphic code: the height it returns counts the value
\* before the unreachable only.
C29_Witness ==
    /\ limiter.status = "done"
    /\ \E i \in 1..(Len(AnalyzedCode) - 3) :
            /\ AnalyzedCode[i].op = "I32Const"
            /\ AnalyzedCode[i + 1].op = "Unreachable"
            /\ AnalyzedCode[i + 2].op = "I32Const"
            /\ AnalyzedCode[i + 3].op = "I32Const"
    /\ limiter.seen = 1

=============================================================================
